---- MODULE Spec2Model ----
(* Model of the control plane's three stateful engines: the service        *)
(* registry with its health monitor (internal/service/registry), the       *)
(* session store (internal/service/session over the in-memory repository)  *)
(* and the token signer/verifier (pkg/jwt).                                 *)
(*                                                                          *)
(* The in-memory repositories store POINTERS (map[string]*T), so a record   *)
(* is modelled as a heap cell and the tables map identifiers to cells:      *)
(* mutating a cell that is still stored changes the stored record.          *)
EXTENDS Integers, Sequences, FiniteSets, TLC

----------------------------------------------------------------------------
(* Bounds of the model *)
MaxTime == 3
MaxObjs == 2
MaxProbes == 2

(* Configuration values (registry.Config) *)
HealthCheckInterval == 1

StatusHealthy == "healthy"
StatusUnhealthy == "unhealthy"
StatusUnknown == "unknown"
Statuses == {StatusHealthy, StatusUnhealthy, StatusUnknown}

Ids == {"svc-1", "svc-2"}
GoodURL == "http://svc/health"
BadURL == "%zz"

(* The bodies of the registration requests the model draws from:          *)
(* capabilities (an ordered list) and the health-check URL ("" = none,    *)
(* BadURL = a string http.NewRequest cannot parse).                        *)
RegisterRequests ==
  { [caps |-> <<"payment">>, url |-> ""],
    [caps |-> <<"refund", "payment">>, url |-> GoodURL],
    [caps |-> <<>>, url |-> BadURL] }

(* Capability strings asked of Discover: the wildcard, two tags and a     *)
(* proper prefix of a tag.                                                 *)
CapArgs == {"", "payment", "refund", "pay"}

NoObj == 0
NoRet == [op |-> "none"]

VARIABLES
  now,        \* the wall clock (time.Now())
  objs,       \* heap of *service.Service cells, in allocation order
  services,   \* RegistryRepository.services: id -> cell (NoObj = absent)
  sweep,      \* the health-monitor goroutine: [pc, list, cur]
  probes,     \* checkServiceHealth goroutines in flight, in dispatch order
  hb,         \* a Heartbeat request in progress: [pc, id, obj]
  cancelled,  \* the shared shutdown signal (ctx.Done())
  sessObjs,   \* heap of *session.Session cells, in allocation order
  sessions,   \* SessionRepository.sessions: id -> cell (NoObj = absent)
  upd,        \* a session Update request in progress: [pc, id, obj, data]
  cleanup,    \* the session cleanup goroutine: "running" or "stopped"
  issued,     \* the tokens Generate has given out, with the claims asked
  config,     \* jwtService.config, and whether the authority is constructed
  ret         \* what the step just taken gave out: a response or a log line

registryVars == <<objs, services, sweep, probes, hb>>
sessionVars == <<sessObjs, sessions, upd, cleanup>>
tokenVars == <<issued, config>>
vars == <<now, registryVars, cancelled, sessionVars, tokenVars, ret>>

----------------------------------------------------------------------------
(* Pure helpers *)

Range(s) == {s[i] : i \in 1..Len(s)}

RECURSIVE Perms(_)
Perms(S) ==
  IF S = {} THEN {<<>>}
  ELSE UNION {{<<x>> \o p : p \in Perms(S \ {x})} : x \in S}

RemoveAt(s, i) == SubSeq(s, 1, i - 1) \o SubSeq(s, i + 1, Len(s))

----------------------------------------------------------------------------
(* internal/domain/service *)

(* The age of the heartbeat taken with the wrong sign *)
IsHealthyUntil(s, timeout, t) ==
  IF s.status = StatusUnhealthy THEN FALSE
  ELSE (s.lastHeartbeat - t) < timeout

IsHealthy(s, timeout, t) ==
  IF s.status = StatusUnhealthy THEN FALSE
  ELSE (t - s.lastHeartbeat) < timeout

(* The stamp alone, the status left as it was *)
UpdateHeartbeatStampOnly(s, t) == [s EXCEPT !.lastHeartbeat = t]

(* Service.UpdateHeartbeat *)
UpdateHeartbeat(s, t) ==
  [s EXCEPT !.lastHeartbeat = t, !.status = StatusHealthy]

(* The status set back to unknown *)
MarkUnknown(s) == [s EXCEPT !.status = StatusUnknown]

(* Service.MarkUnhealthy *)
MarkUnhealthy(s) == [s EXCEPT !.status = StatusUnhealthy]

----------------------------------------------------------------------------
(* internal/repository/memory: RegistryRepository *)

RepoRegister(tbl, id, o) == [tbl EXCEPT ![id] = o]

(* Nothing removed *)
RepoDeregisterNot(tbl, id) == tbl

RepoDeregister(tbl, id) == [tbl EXCEPT ![id] = NoObj]

RepoGetFound(tbl, id) == tbl[id] # NoObj

RepoUpdateFound(tbl, id) == tbl[id] # NoObj

(* The write-back stored whether or not the id has an entry *)
RepoUpdateUpsert(tbl, id, o) == [tbl EXCEPT ![id] = o]

RepoUpdate(tbl, id, o) ==
  IF RepoUpdateFound(tbl, id) THEN [tbl EXCEPT ![id] = o] ELSE tbl

(* List: the cells of the table, in the (unspecified) map iteration order *)
RepoList(tbl) == Perms({tbl[id] : id \in {i \in Ids : tbl[i] # NoObj}})

----------------------------------------------------------------------------
(* internal/service/registry *)

RECURSIVE capLoop(_, _)
capLoop(caps, capability) ==
  IF caps = <<>> THEN FALSE
  ELSE IF Head(caps) = capability THEN TRUE
  ELSE capLoop(Tail(caps), capability)

hasCapability(svc, capability) ==
  IF capability = "" THEN TRUE ELSE capLoop(svc.caps, capability)

(* The capability test alone, the status not looked at *)
MatchesAnyStatus(svc, capability) == hasCapability(svc, capability)

Matches(svc, capability) ==
  svc.status = StatusHealthy /\ hasCapability(svc, capability)

RECURSIVE discoverLoop(_, _, _)
discoverLoop(heap, list, capability) ==
  IF list = <<>> THEN <<>>
  ELSE (IF Matches(heap[Head(list)], capability)
          THEN <<Head(list)>> ELSE <<>>)
       \o discoverLoop(heap, Tail(list), capability)

(* Cells no goroutine and no table entry points to any more are garbage: *)
(* their contents can never be read again.                                 *)
DeadObj ==
  [id |-> "", caps |-> <<>>, url |-> "", status |-> "", via |-> "",
   registeredAt |-> 0, lastHeartbeat |-> 0]

Live(tbl, sw, pr, h) ==
  {tbl[id] : id \in Ids} \cup Range(sw.list) \cup {sw.cur}
    \cup {pr[i].obj : i \in 1..Len(pr)} \cup {h.obj}

Collect(heap, tbl, sw, pr, h) ==
  [o \in 1..Len(heap) |-> IF o \in Live(tbl, sw, pr, h) THEN heap[o] ELSE DeadObj]

(* NewRegistryRepository, registry.New: an empty table, nothing running *)
RegistryInit ==
  /\ objs = <<>>
  /\ services = [id \in Ids |-> NoObj]
  /\ sweep = [pc |-> "idle", list |-> <<>>, cur |-> NoObj]
  /\ probes = <<>>
  /\ hb = [pc |-> "idle", id |-> "", obj |-> NoObj]

(* The status a caller's record carries into Register: none, or one    *)
(* left in it                                                            *)
CallerStatuses == {"", StatusHealthy, StatusUnhealthy, StatusUnknown}

(* The caller's status kept when it carries one *)
StampKeep(id, req, st, t) ==
  [id |-> id, caps |-> req.caps, url |-> req.url,
   status |-> IF st = "" THEN StatusHealthy ELSE st, via |-> "Register",
   registeredAt |-> t, lastHeartbeat |-> t]

(* The record Service.Register stores: the caller's fields, stamped,    *)
(* whatever status st the caller's record carried.                       *)
(* via is not a field of the program: it remembers which path created   *)
(* the record.                                                          *)
Stamp(id, req, st, t) ==
  [id |-> id, caps |-> req.caps, url |-> req.url,
   status |-> StatusHealthy, via |-> "Register",
   registeredAt |-> t, lastHeartbeat |-> t]

(* Service.Register: stamp the caller's record and upsert it *)
Register(id, req) ==
  /\ ret = NoRet
  /\ Len(objs) < MaxObjs
  /\ services' = RepoRegister(services, id, Len(objs) + 1)
  /\ \E st \in CallerStatuses :
        objs' = Collect(Append(objs, Stamp(id, req, st, now)), services', sweep, probes, hb)
  /\ ret' = [op |-> "Register", id |-> id, err |-> "", val |-> <<Len(objs) + 1>>]
  /\ UNCHANGED <<now, sweep, probes, hb, cancelled, sessionVars, tokenVars>>

(* RegistryRepository.Register called directly with a record that did not *)
(* pass through Service.Register (storage seeding): its status is whatever *)
(* the caller left in it.                                                   *)
Seed(id, req, st) ==
  /\ ret = NoRet
  /\ Len(objs) < MaxObjs
  /\ services' = RepoRegister(services, id, Len(objs) + 1)
  /\ objs' = Collect(Append(objs, [Stamp(id, req, st, now) EXCEPT !.status = st, !.via = "Seed"]),
                     services', sweep, probes, hb)
  /\ ret' = [op |-> "Seed", id |-> id, err |-> "", val |-> <<Len(objs) + 1>>]
  /\ UNCHANGED <<now, sweep, probes, hb, cancelled, sessionVars, tokenVars>>

(* Service.Deregister *)
Deregister(id) ==
  /\ ret = NoRet
  /\ services' = RepoDeregister(services, id)
  /\ objs' = Collect(objs, services', sweep, probes, hb)
  /\ ret' = [op |-> "Deregister", id |-> id, err |-> "", val |-> <<>>]
  /\ UNCHANGED <<now, sweep, probes, hb, cancelled, sessionVars, tokenVars>>

(* Service.List *)
List ==
  /\ ret = NoRet
  /\ \E l \in RepoList(services) :
        ret' = [op |-> "List", id |-> "", err |-> "", val |-> l]
  /\ UNCHANGED <<now, objs, services, sweep, probes, hb, cancelled, sessionVars, tokenVars>>

(* Service.Discover *)
Discover(capability) ==
  /\ ret = NoRet
  /\ \E l \in RepoList(services) :
        ret' = [op |-> "Discover", arg |-> capability, err |-> "",
                val |-> discoverLoop(objs, l, capability)]
  /\ UNCHANGED <<now, objs, services, sweep, probes, hb, cancelled, sessionVars, tokenVars>>

(* Service.Heartbeat, line 112: repo.Get returns the stored cell *)
HeartbeatGet(id) ==
  /\ ret = NoRet
  /\ hb.pc = "idle"
  /\ IF RepoGetFound(services, id)
       THEN /\ hb' = [pc |-> "touch", id |-> id, obj |-> services[id]]
            /\ ret' = NoRet
       ELSE /\ hb' = hb
            /\ ret' = [op |-> "Heartbeat", id |-> id, err |-> "NotFound", val |-> <<>>]
  /\ UNCHANGED <<now, objs, services, sweep, probes, cancelled, sessionVars, tokenVars>>

(* Service.Heartbeat, lines 117-124: svc.UpdateHeartbeat() on that cell, *)
(* then repo.Update. val is not part of the answer: it remembers the     *)
(* cell the call touched.                                                *)
HeartbeatUpdate ==
  /\ ret = NoRet
  /\ hb.pc = "touch"
  /\ services' = RepoUpdate(services, hb.id, hb.obj)
  /\ hb' = [pc |-> "idle", id |-> "", obj |-> NoObj]
  /\ objs' = Collect([objs EXCEPT ![hb.obj] = UpdateHeartbeat(@, now)],
                     services', sweep, probes, hb')
  /\ ret' = [op |-> "Heartbeat", id |-> hb.id,
             err |-> IF RepoUpdateFound(services, hb.id) THEN "" ELSE "NotFound",
             val |-> <<hb.obj>>]
  /\ UNCHANGED <<now, sweep, probes, cancelled, sessionVars, tokenVars>>

SweepAdvance(rest) ==
  [pc |-> IF rest = <<>> THEN "idle" ELSE "loop", list |-> rest, cur |-> NoObj]

(* The same call at the grain of the table's lock.  mu is not a        *)
(* variable of its own: a task holds it exactly while it stands inside    *)
(* a repository method, hb.pc = "locked" and sweep.pc = "marking" for     *)
(* Update's r.mu.Lock() and sweep.pc = "listing" for List's r.mu.RLock(). *)
ExclusiveHolders ==
  (IF hb.pc = "locked" THEN {"heartbeat"} ELSE {})
    \cup (IF sweep.pc = "marking" THEN {"sweep"} ELSE {})
SharedHolders == IF sweep.pc = "listing" THEN {"sweep"} ELSE {}

(* Service.Heartbeat, line 117: svc.UpdateHeartbeat() writes the fields  *)
(* of the cell repo.Get returned; no lock is taken for it                 *)
HeartbeatTouch ==
  /\ ret = NoRet
  /\ hb.pc = "touch"
  /\ hb' = [hb EXCEPT !.pc = "written"]
  /\ objs' = [objs EXCEPT ![hb.obj] = UpdateHeartbeat(@, now)]
  /\ UNCHANGED <<now, services, sweep, probes, cancelled, ret, sessionVars, tokenVars>>

(* RegistryRepository.Update, r.mu.Lock(): waits until nobody holds mu *)
HeartbeatLock ==
  /\ ret = NoRet
  /\ hb.pc = "written"
  /\ ExclusiveHolders = {}
  /\ SharedHolders = {}
  /\ hb' = [hb EXCEPT !.pc = "locked"]
  /\ UNCHANGED <<now, objs, services, sweep, probes, cancelled, ret, sessionVars, tokenVars>>

(* RegistryRepository.Update, the body and the deferred r.mu.Unlock(),   *)
(* then Heartbeat's answer                                                *)
HeartbeatStore ==
  /\ ret = NoRet
  /\ hb.pc = "locked"
  /\ services' = RepoUpdate(services, hb.id, hb.obj)
  /\ hb' = [pc |-> "idle", id |-> "", obj |-> NoObj]
  /\ objs' = Collect(objs, services', sweep, probes, hb')
  /\ ret' = [op |-> "Heartbeat", id |-> hb.id,
             err |-> IF RepoUpdateFound(services, hb.id) THEN "" ELSE "NotFound",
             val |-> <<hb.obj>>]
  /\ UNCHANGED <<now, sweep, probes, cancelled, sessionVars, tokenVars>>

(* performHealthChecks, RegistryRepository.List, r.mu.RLock(): waits     *)
(* until no writer holds mu                                               *)
SweepListLock ==
  /\ ret = NoRet
  /\ sweep.pc = "idle"
  /\ ExclusiveHolders = {}
  /\ sweep' = [sweep EXCEPT !.pc = "listing"]
  /\ UNCHANGED <<now, objs, services, probes, hb, cancelled, ret, sessionVars, tokenVars>>

(* RegistryRepository.List, the copy of the table's cells and the        *)
(* deferred r.mu.RUnlock()                                                *)
SweepListDone ==
  /\ ret = NoRet
  /\ sweep.pc = "listing"
  /\ \E l \in RepoList(services) : sweep' = SweepAdvance(l)
  /\ UNCHANGED <<now, objs, services, probes, hb, cancelled, ret, sessionVars, tokenVars>>

(* StartHealthChecks, case <-ticker.C: performHealthChecks lists the    *)
(* table.  select picks among the ready cases at random, so a pending    *)
(* tick can be taken even when the shutdown signal is up as well.        *)
SweepStart ==
  /\ ret = NoRet
  /\ sweep.pc = "idle"
  /\ \E l \in RepoList(services) : sweep' = SweepAdvance(l)
  /\ UNCHANGED <<now, objs, services, probes, hb, cancelled, ret, sessionVars, tokenVars>>

(* StartHealthChecks, case <-ticker.C, when the storage port answers     *)
(* List with an error: performHealthChecks logs it and returns, and the   *)
(* loop goes on                                                           *)
SweepStartFails ==
  /\ ret = NoRet
  /\ sweep.pc = "idle"
  /\ ret' = [op |-> "error", msg |-> "failed to list services for health check"]
  /\ UNCHANGED <<now, objs, services, sweep, probes, hb, cancelled, sessionVars, tokenVars>>

(* StartHealthChecks, case <-ctx.Done() *)
HealthChecksStop ==
  /\ ret = NoRet
  /\ sweep.pc = "idle"
  /\ cancelled
  /\ sweep' = [pc |-> "stopped", list |-> <<>>, cur |-> NoObj]
  /\ ret' = [op |-> "info", msg |-> "stopping health checks"]
  /\ UNCHANGED <<now, objs, services, probes, hb, cancelled, sessionVars, tokenVars>>

(* performHealthChecks, one iteration of the loop: the heartbeat test of *)
(* a record without health-check URL, or the dispatch of a probe          *)
SweepCheck ==
  /\ ret = NoRet
  /\ sweep.pc = "loop"
  /\ LET o == Head(sweep.list)
         rest == Tail(sweep.list)
     IN IF objs[o].url = ""
          THEN /\ sweep' = IF ~IsHealthy(objs[o], HealthCheckInterval * 2, now)
                             THEN [pc |-> "mark", list |-> rest, cur |-> o]
                             ELSE SweepAdvance(rest)
               /\ probes' = probes
          ELSE /\ Len(probes) < MaxProbes
               /\ probes' = Append(probes, [obj |-> o])
               /\ sweep' = SweepAdvance(rest)
  /\ objs' = Collect(objs, services, sweep', probes', hb)
  /\ UNCHANGED <<now, services, hb, cancelled, ret, sessionVars, tokenVars>>

(* performHealthChecks, lines 154-155: svc.MarkUnhealthy() on the listed *)
(* cell, then s.repo.Update(ctx, svc) whose error is dropped              *)
SweepMark ==
  /\ ret = NoRet
  /\ sweep.pc = "mark"
  /\ services' = RepoUpdate(services, objs[sweep.cur].id, sweep.cur)
  /\ sweep' = SweepAdvance(sweep.list)
  /\ objs' = Collect([objs EXCEPT ![sweep.cur] = MarkUnhealthy(@)],
                     services', sweep', probes, hb)
  /\ ret' = [op |-> "warn", id |-> objs[sweep.cur].id, err |-> "",
             msg |-> "service marked unhealthy (heartbeat timeout)",
             val |-> <<sweep.cur>>]
  /\ UNCHANGED <<now, probes, hb, cancelled, sessionVars, tokenVars>>

(* performHealthChecks, line 154: svc.MarkUnhealthy() writes the status *)
(* of the listed cell; no lock is taken for it                            *)
SweepMarkTouch ==
  /\ ret = NoRet
  /\ sweep.pc = "mark"
  /\ sweep' = [sweep EXCEPT !.pc = "marked"]
  /\ objs' = [objs EXCEPT ![sweep.cur] = MarkUnhealthy(@)]
  /\ UNCHANGED <<now, services, probes, hb, cancelled, ret, sessionVars, tokenVars>>

(* performHealthChecks, line 155: RegistryRepository.Update, r.mu.Lock() *)
SweepMarkLock ==
  /\ ret = NoRet
  /\ sweep.pc = "marked"
  /\ ExclusiveHolders = {}
  /\ SharedHolders = {}
  /\ sweep' = [sweep EXCEPT !.pc = "marking"]
  /\ UNCHANGED <<now, objs, services, probes, hb, cancelled, ret, sessionVars, tokenVars>>

(* RegistryRepository.Update, the body and the deferred r.mu.Unlock(),   *)
(* then the sweep's log line                                              *)
SweepMarkStore ==
  /\ ret = NoRet
  /\ sweep.pc = "marking"
  /\ services' = RepoUpdate(services, objs[sweep.cur].id, sweep.cur)
  /\ sweep' = SweepAdvance(sweep.list)
  /\ objs' = Collect(objs, services', sweep', probes, hb)
  /\ ret' = [op |-> "warn", id |-> objs[sweep.cur].id, err |-> "",
             msg |-> "service marked unhealthy (heartbeat timeout)",
             val |-> <<sweep.cur>>]
  /\ UNCHANGED <<now, probes, hb, cancelled, sessionVars, tokenVars>>

(* What a probe of this record can come back with: the request cannot be *)
(* built for an unparseable URL; otherwise a 200, another status, or a    *)
(* transport error (refused, timed out).  The request carries the context *)
(* StartHealthChecks was given, so once the shutdown signal is up         *)
(* httpClient.Do can also return the context's error.                     *)
ProbeOutcomes(svc) ==
  IF svc.url = BadURL THEN {"norequest"}
  ELSE {"200", "500", "error"} \cup (IF cancelled THEN {"canceled"} ELSE {})

(* Only a transport error counted as a failed probe *)
checkServiceHealthErrOnly(svc, outcome) ==
  IF outcome = "norequest" THEN svc
  ELSE IF outcome = "error" THEN MarkUnhealthy(svc)
  ELSE IF svc.status # StatusHealthy THEN [svc EXCEPT !.status = StatusHealthy]
  ELSE svc

(* The cell after checkServiceHealth has seen the outcome *)
checkServiceHealth(svc, outcome) ==
  IF outcome = "norequest" THEN svc
  ELSE IF outcome # "200" THEN MarkUnhealthy(svc)
  ELSE IF svc.status # StatusHealthy THEN [svc EXCEPT !.status = StatusHealthy]
  ELSE svc

(* A recovery logged on every 200 *)
checkLogEvery200(svc, outcome) ==
  IF outcome = "norequest"
    THEN [op |-> "error", msg |-> "failed to create health check request"]
  ELSE IF outcome # "200"
    THEN [op |-> "warn", msg |-> "service health check failed"]
  ELSE [op |-> "info", msg |-> "service recovered"]

(* The line checkServiceHealth logs, if any *)
checkLog(svc, outcome) ==
  IF outcome = "norequest"
    THEN [op |-> "error", msg |-> "failed to create health check request"]
  ELSE IF outcome # "200"
    THEN [op |-> "warn", msg |-> "service health check failed"]
  ELSE IF svc.status # StatusHealthy
    THEN [op |-> "info", msg |-> "service recovered"]
  ELSE NoRet

(* Whether checkServiceHealth calls repo.Update *)
checkWrites(svc, outcome) ==
  /\ outcome # "norequest"
  /\ outcome # "200" \/ svc.status # StatusHealthy

(* A probe goroutine runs to completion *)
ProbeDone(i, outcome) ==
  /\ ret = NoRet
  /\ i \in 1..Len(probes)
  /\ LET o == probes[i].obj
     IN /\ outcome \in ProbeOutcomes(objs[o])
        /\ services' = IF checkWrites(objs[o], outcome)
                         THEN RepoUpdate(services, objs[o].id, o)
                         ELSE services
        /\ probes' = RemoveAt(probes, i)
        /\ objs' = Collect([objs EXCEPT ![o] = checkServiceHealth(@, outcome)],
                           services', sweep, probes', hb)
        /\ ret' = LET l == checkLog(objs[o], outcome)
                  IN IF l = NoRet THEN NoRet
                     ELSE [op |-> l.op, id |-> objs[o].id, err |-> "",
                           msg |-> l.msg, val |-> <<o>>]
  /\ UNCHANGED <<now, sweep, hb, cancelled, sessionVars, tokenVars>>

(* The shutdown signal is raised *)
Cancel ==
  /\ ret = NoRet
  /\ ~cancelled
  /\ cancelled' = TRUE
  /\ UNCHANGED <<now, objs, services, sweep, probes, hb, ret, sessionVars, tokenVars>>

Tick ==
  /\ ret = NoRet
  /\ now < MaxTime
  /\ now' = now + 1
  /\ UNCHANGED <<objs, services, sweep, probes, hb, cancelled, ret, sessionVars, tokenVars>>

(* The response has been taken by the caller, the line by the log *)
Return ==
  /\ ret # NoRet
  /\ ret' = NoRet
  /\ UNCHANGED <<now, objs, services, sweep, probes, hb, cancelled, sessionVars, tokenVars>>

----------------------------------------------------------------------------
(* The session store: internal/domain/session, the in-memory             *)
(* SessionRepository and internal/service/session                         *)

(* Bound of the session store: sessions created in one behaviour *)
MaxSessions == 2

(* session.Config.DefaultTTL, in clock units *)
DefaultTTL == 2

(* The ttl arguments of Create: already elapsed, "use the default", and  *)
(* a value shorter than the default.                                      *)
TTLs == {-1, 0, 1}
UserIds == {"u1"}
ServiceIds == {"svc-1"}
DataValues == {"d0", "d1"}

(* generateSessionID: fmt.Sprintf("sess_%d", time.Now().UnixNano()) *)
generateSessionID(t) == <<"sess_", t>>

SessionIds == {generateSessionID(t) : t \in 0..MaxTime}

(* A reading of the clock one unit late *)
IsExpiredLate(s, t) == t > s.expiresAt + 1

(* Session.IsExpired: time.Now().After(s.ExpiresAt) *)
IsExpired(s, t) == t > s.expiresAt

(* The expiry slid forward with every access *)
TouchExtends(s, t) == [s EXCEPT !.updatedAt = t, !.expiresAt = t + DefaultTTL]

(* The stamp left as it was *)
TouchNot(s, t) == s

(* Session.Touch *)
Touch(s, t) == [s EXCEPT !.updatedAt = t]

(* No look at what is stored *)
SessCreateNever(tbl, id) == FALSE

(* SessionRepository.Create: refuses an identifier already present *)
SessCreateExists(tbl, id) == tbl[id] # NoObj
SessCreate(tbl, id, o) == [tbl EXCEPT ![id] = o]

(* SessionRepository.Get *)
SessGetFound(tbl, id) == tbl[id] # NoObj

(* SessionRepository.Update: re-points the entry of an identifier that is *)
(* present, and fails for one that is not                                  *)
(* Every identifier taken as present *)
SessUpdateFoundAlways(tbl, id) == TRUE

SessUpdateFound(tbl, id) == tbl[id] # NoObj

(* The entry written whether or not the identifier is present *)
SessUpdateUpsert(tbl, id, o) == [tbl EXCEPT ![id] = o]

SessUpdate(tbl, id, o) == IF SessUpdateFound(tbl, id) THEN [tbl EXCEPT ![id] = o] ELSE tbl

(* The whole table emptied *)
SessDeleteAll(tbl, id) == [i \in DOMAIN tbl |-> NoObj]

(* SessionRepository.Delete *)
SessDelete(tbl, id) == [tbl EXCEPT ![id] = NoObj]

(* Not-after in the place of before *)
ExpiresUpTo(s, t) == s.expiresAt <= t

(* A sweep that spares a session for one more clock reading *)
ExpiresAfterGrace(s, t) == s.expiresAt + 1 < t

(* SessionRepository.DeleteExpired, line 171: sess.ExpiresAt.Before(now) *)
ExpiresBefore(s, t) == s.expiresAt < t

Swept(heap, tbl, t) ==
  {id \in SessionIds : tbl[id] # NoObj /\ ExpiresBefore(heap[tbl[id]], t)}

SessDeleteExpired(heap, tbl, t) ==
  [id \in SessionIds |-> IF id \in Swept(heap, tbl, t) THEN NoObj ELSE tbl[id]]

(* The ttl argument taken as it is *)
RawTTL(ttl, def) == ttl

(* Service.Create, lines 49-51: ttl == 0 selects the configured default *)
EffectiveTTL(ttl, def) == IF ttl = 0 THEN def ELSE ttl

(* Service.Create, lines 53-62: the record Create builds *)
NewSession(userID, serviceID, data, ttl, t) ==
  [id |-> generateSessionID(t), userID |-> userID, serviceID |-> serviceID,
   data |-> data, createdAt |-> t, updatedAt |-> t,
   expiresAt |-> t + EffectiveTTL(ttl, DefaultTTL)]

DeadSession ==
  [id |-> <<>>, userID |-> "", serviceID |-> "", data |-> "",
   createdAt |-> 0, updatedAt |-> 0, expiresAt |-> 0]

SessCollect(heap, tbl, u) ==
  [o \in 1..Len(heap) |->
     IF o \in {tbl[id] : id \in SessionIds} \cup {u.obj} THEN heap[o] ELSE DeadSession]

NoUpd == [pc |-> "idle", id |-> <<>>, obj |-> NoObj, data |-> ""]

(* NewSessionRepository, session.New; StartCleanup is started by main *)
SessionInit ==
  /\ sessObjs = <<>>
  /\ sessions = [id \in SessionIds |-> NoObj]
  /\ upd = NoUpd
  /\ cleanup = "running"

(* Service.Create *)
Create(userID, serviceID, data, ttl) ==
  /\ ret = NoRet
  /\ LET sess == NewSession(userID, serviceID, data, ttl, now)
         o == Len(sessObjs) + 1
     IN IF SessCreateExists(sessions, sess.id)
          THEN /\ ret' = [op |-> "Create", ttl |-> ttl,
                          err |-> "create session: session already exists", val |-> <<>>]
               /\ UNCHANGED <<sessObjs, sessions>>
          ELSE /\ Len(sessObjs) < MaxSessions
               /\ sessions' = SessCreate(sessions, sess.id, o)
               /\ sessObjs' = SessCollect(Append(sessObjs, sess), sessions', upd)
               /\ ret' = [op |-> "Create", ttl |-> ttl, err |-> "", val |-> <<o>>]
  /\ UNCHANGED <<now, cancelled, upd, cleanup, registryVars, tokenVars>>

(* Service.Get: the stored cell, unless it is absent or has expired *)
GetResult(heap, tbl, id, t) ==
  IF ~SessGetFound(tbl, id) THEN [err |-> "get session: session not found", val |-> <<>>]
  ELSE IF IsExpired(heap[tbl[id]], t) THEN [err |-> "session expired", val |-> <<>>]
  ELSE [err |-> "", val |-> <<tbl[id]>>]

Get(id) ==
  /\ ret = NoRet
  /\ LET r == GetResult(sessObjs, sessions, id, now)
     IN ret' = [op |-> "Get", id |-> id, err |-> r.err, val |-> r.val]
  /\ UNCHANGED <<now, cancelled, sessionVars, registryVars, tokenVars>>

(* Service.Update, lines 95-98: s.Get *)
UpdateGet(id, data) ==
  /\ ret = NoRet
  /\ upd.pc = "idle"
  /\ LET r == GetResult(sessObjs, sessions, id, now)
     IN IF r.err = ""
          THEN /\ upd' = [pc |-> "write", id |-> id, obj |-> r.val[1], data |-> data]
               /\ ret' = NoRet
          ELSE /\ upd' = upd
               /\ ret' = [op |-> "Update", id |-> id, err |-> r.err, val |-> <<>>]
  /\ UNCHANGED <<now, cancelled, sessObjs, sessions, cleanup, registryVars, tokenVars>>

(* Service.Update, lines 100-108: the new payload and Touch on that cell, *)
(* then repo.Update                                                        *)
UpdateWrite ==
  /\ ret = NoRet
  /\ upd.pc = "write"
  /\ sessions' = SessUpdate(sessions, upd.id, upd.obj)
  /\ upd' = NoUpd
  /\ sessObjs' = SessCollect([sessObjs EXCEPT ![upd.obj] = Touch([@ EXCEPT !.data = upd.data], now)],
                             sessions', upd')
  /\ ret' = [op |-> "Update", id |-> upd.id,
             err |-> IF SessUpdateFound(sessions, upd.id) THEN ""
                     ELSE "update session: session not found",
             val |-> <<>>]
  /\ UNCHANGED <<now, cancelled, cleanup, registryVars, tokenVars>>

(* Service.Delete *)
Delete(id) ==
  /\ ret = NoRet
  /\ sessions' = SessDelete(sessions, id)
  /\ sessObjs' = SessCollect(sessObjs, sessions', upd)
  /\ ret' = [op |-> "Delete", id |-> id, err |-> "", val |-> <<>>]
  /\ UNCHANGED <<now, cancelled, upd, cleanup, registryVars, tokenVars>>

(* StartCleanup, case <-ticker.C: one DeleteExpired sweep; the count is  *)
(* logged when it is positive.  A pending tick can be selected even when  *)
(* the shutdown signal is up as well.                                      *)
CleanupSweep ==
  /\ ret = NoRet
  /\ cleanup = "running"
  /\ sessions' = SessDeleteExpired(sessObjs, sessions, now)
  /\ sessObjs' = SessCollect(sessObjs, sessions', upd)
  /\ ret' = [op |-> "DeleteExpired", err |-> "",
             val |-> Cardinality(Swept(sessObjs, sessions, now)),
             logged |-> Cardinality(Swept(sessObjs, sessions, now)) > 0]
  /\ UNCHANGED <<now, cancelled, upd, cleanup, registryVars, tokenVars>>

(* The task ended by a failed sweep *)
CleanupAfterErrorStops(task) == "stopped"

(* StartCleanup, line 136: continue *)
CleanupAfterError(task) == task

(* StartCleanup, case <-ticker.C, when the storage port answers          *)
(* DeleteExpired with an error: it is logged, and the loop goes on        *)
CleanupSweepFails ==
  /\ ret = NoRet
  /\ cleanup = "running"
  /\ cleanup' = CleanupAfterError(cleanup)
  /\ ret' = [op |-> "error", msg |-> "failed to delete expired sessions"]
  /\ UNCHANGED <<now, cancelled, sessObjs, sessions, upd, registryVars, tokenVars>>

(* StartCleanup, case <-ctx.Done() *)
CleanupStop ==
  /\ ret = NoRet
  /\ cleanup = "running"
  /\ cancelled
  /\ cleanup' = "stopped"
  /\ ret' = [op |-> "info", msg |-> "stopping session cleanup"]
  /\ UNCHANGED <<now, cancelled, sessObjs, sessions, upd, registryVars, tokenVars>>

----------------------------------------------------------------------------
(* The token authority: internal/domain/token, pkg/jwt and               *)
(* internal/service/auth                                                  *)

(* Bounds of the token authority: tokens issued in one behaviour, and   *)
(* the length of a signature in bytes                                     *)
MaxTokens == 1
SigLen == 2

(* Tokens RefreshToken gives out in one behaviour, on top of Generate's *)
MaxRefreshes == 1

(* jwt.Config *)
Secret == "secret"
Issuer == "root-server"
AccessTokenTTL == 1

(* A key the authority does not hold *)
OtherSecret == "other"

(* The zero time.Time, earlier than every reading of the clock *)
ZeroTime == -1

(* Go values.  A slice or map is nil or holds a list v; a map is the list *)
(* of its entries in key order, the order json.Marshal writes them in.    *)
(* A value of type any carries its dynamic type t.                        *)
NilList == [nil |-> TRUE, v |-> <<>>]
ListOf(v) == [nil |-> FALSE, v |-> v]
GoString(x) == [t |-> "string", s |-> x, n |-> 0]
GoInt(x) == [t |-> "int", s |-> "", n |-> x]
GoFloat64(x) == [t |-> "float64", s |-> "", n |-> x]
GoFunc == [t |-> "func", s |-> "", n |-> 0]
Entry(key, val) == [key |-> key, val |-> val]

(* token.Claims as a caller fills it in *)
ClaimsOf(sub, aud, nbf, jti, roles, metadata) ==
  [sub |-> sub, iss |-> "", aud |-> aud, exp |-> ZeroTime, iat |-> ZeroTime,
   nbf |-> nbf, jti |-> jti, roles |-> roles, metadata |-> metadata]

(* The claims values the model draws from *)
ClaimsInputs ==
  { ClaimsOf("u1", "", ZeroTime, "", NilList, NilList),
    ClaimsOf("u1", "api", 1, "t1", ListOf(<<"admin", "dev">>),
             ListOf(<<Entry("k", GoString("v")), Entry("n", GoFloat64(1))>>)),
    ClaimsOf("", "", ZeroTime, "", ListOf(<<>>), NilList),
    ClaimsOf("u1", "", ZeroTime, "", NilList, ListOf(<<>>)),
    ClaimsOf("u1", "", ZeroTime, "", NilList, ListOf(<<Entry("n", GoInt(1))>>)),
    ClaimsOf("u1", "", ZeroTime, "", NilList, ListOf(<<Entry("f", GoFunc)>>)) }

(* JSON values: a member of an object is absent or carries a string s,   *)
(* an RFC 3339 time n, an array a of strings or an object o               *)
JAbsent == [present |-> FALSE, s |-> "", n |-> 0, a |-> <<>>, o |-> <<>>]
JString(x) == [JAbsent EXCEPT !.present = TRUE, !.s = x]
JTime(t) == [JAbsent EXCEPT !.present = TRUE, !.n = t]
JArray(l) == [JAbsent EXCEPT !.present = TRUE, !.a = l]

(* json.Marshal of a value of type any: a string, or a number whatever   *)
(* the numeric type                                                       *)
marshalAny(v) ==
  IF v.t = "string" THEN [j |-> "string", s |-> v.s, n |-> 0]
  ELSE [j |-> "number", s |-> "", n |-> v.n]

(* json.Unmarshal into any: a string, or a float64 for every number *)
unmarshalAny(jv) ==
  IF jv.j = "string" THEN GoString(jv.s) ELSE GoFloat64(jv.n)

JObject(m) ==
  [JAbsent EXCEPT !.present = TRUE,
                  !.o = [i \in 1..Len(m) |-> Entry(m[i].key, marshalAny(m[i].val))]]

(* json.Marshal fails on a value JSON cannot represent *)
Marshalable(c) == \A i \in 1..Len(c.metadata.v) : c.metadata.v[i].val.t # "func"

(* json.Marshal(claims) with the roles left out, as under the tag "-" *)
marshalClaimsNoRoles(c) ==
  [kind |-> "claims",
   sub |-> JString(c.sub), iss |-> JString(c.iss),
   aud |-> IF c.aud = "" THEN JAbsent ELSE JString(c.aud),
   exp |-> JTime(c.exp), iat |-> JTime(c.iat), nbf |-> JTime(c.nbf),
   jti |-> IF c.jti = "" THEN JAbsent ELSE JString(c.jti),
   roles |-> JAbsent,
   metadata |-> IF Len(c.metadata.v) = 0 THEN JAbsent ELSE JObject(c.metadata.v)]

(* json.Marshal(claims), by the tags of token.Claims: omitempty drops an *)
(* empty string, slice or map, and never a time.Time                      *)
marshalClaims(c) ==
  [kind |-> "claims",
   sub |-> JString(c.sub), iss |-> JString(c.iss),
   aud |-> IF c.aud = "" THEN JAbsent ELSE JString(c.aud),
   exp |-> JTime(c.exp), iat |-> JTime(c.iat), nbf |-> JTime(c.nbf),
   jti |-> IF c.jti = "" THEN JAbsent ELSE JString(c.jti),
   roles |-> IF Len(c.roles.v) = 0 THEN JAbsent ELSE JArray(c.roles.v),
   metadata |-> IF Len(c.metadata.v) = 0 THEN JAbsent ELSE JObject(c.metadata.v)]

(* json.Unmarshal(claimsJSON, &claims): a member that is absent leaves   *)
(* the zero value of its field                                            *)
unmarshalClaims(d) ==
  [sub |-> d.sub.s, iss |-> d.iss.s, aud |-> d.aud.s,
   exp |-> IF d.exp.present THEN d.exp.n ELSE ZeroTime,
   iat |-> IF d.iat.present THEN d.iat.n ELSE ZeroTime,
   nbf |-> IF d.nbf.present THEN d.nbf.n ELSE ZeroTime,
   jti |-> d.jti.s,
   roles |-> IF d.roles.present THEN ListOf(d.roles.a) ELSE NilList,
   metadata |-> IF d.metadata.present
                  THEN ListOf([i \in 1..Len(d.metadata.o) |->
                                 Entry(d.metadata.o[i].key, unmarshalAny(d.metadata.o[i].val))])
                  ELSE NilList]

(* Documents that are not a claims object: the header, and bytes that   *)
(* are not JSON                                                           *)
NoDoc ==
  [kind |-> "none", sub |-> JAbsent, iss |-> JAbsent, aud |-> JAbsent,
   exp |-> JAbsent, iat |-> JAbsent, nbf |-> JAbsent, jti |-> JAbsent,
   roles |-> JAbsent, metadata |-> JAbsent]
HeaderDoc == [NoDoc EXCEPT !.kind = "header"]
TextDoc == [NoDoc EXCEPT !.kind = "text"]

(* A string is a list of bytes.  The bytes of a token: the separator, a  *)
(* plain byte c, the base64url text of a document, and byte pos of the    *)
(* base64url text of the HMAC-SHA256 of msg under key.                     *)
Dot == [k |-> "dot", c |-> "", doc |-> NoDoc, key |-> "", msg |-> <<>>, pos |-> 0]
Chr(c) == [Dot EXCEPT !.k = "chr", !.c = c]
B64(doc) == [Dot EXCEPT !.k = "b64", !.doc = doc]
SigByte(key, msg, pos) == [Dot EXCEPT !.k = "sig", !.key = key, !.msg = msg, !.pos = pos]

(* base64.RawURLEncoding.EncodeToString / DecodeString *)
EncodeToString(doc) == <<B64(doc)>>
DecodeOK(seg) ==
  \/ seg = <<>>
  \/ Len(seg) = 1 /\ seg[1].k = "b64"
DecodeString(seg) == IF seg = <<>> THEN TextDoc ELSE seg[1].doc

(* strings.Split(tokenString, "."): the pieces between the separators,   *)
(* one more than there are separators                                     *)
RECURSIVE splitFrom(_, _)
splitFrom(str, piece) ==
  IF str = <<>> THEN <<piece>>
  ELSE IF Head(str).k = "dot" THEN <<piece>> \o splitFrom(Tail(str), <<>>)
  ELSE splitFrom(Tail(str), Append(piece, Head(str)))

Split(str) == splitFrom(str, <<>>)

(* jwtService.sign *)
sign(secret, message) == [i \in 1..SigLen |-> SigByte(secret, message, i)]

(* A comparison that stops after the first byte *)
hmacEqualFirst(a, b) ==
  /\ Len(a) > 0
  /\ Len(b) > 0
  /\ a[1] = b[1]

(* hmac.Equal([]byte(signature), []byte(expectedSignature)) *)
hmacEqual(a, b) ==
  /\ Len(a) = Len(b)
  /\ \A i \in 1..Len(a) : a[i] = b[i]

(* Three pieces or more *)
FormatAtLeast(parts) == Len(parts) >= 3

(* jwtService.Validate, line 172: len(parts) != 3 *)
FormatOK(parts) == Len(parts) = 3

(* An expiry test one unit late *)
TokenExpiredLate(exp, t) == t > exp + 1

(* jwtService.Validate, line 197: time.Now().After(claims.ExpiresAt) *)
TokenExpired(exp, t) == t > exp

(* Stamps the claims already carry are kept *)
StampedOnce(c, t) ==
  IF c.iat = ZeroTime
    THEN [c EXCEPT !.iss = config.issuer, !.iat = t, !.exp = t + config.ttl]
    ELSE c

(* jwtService.Generate at clock reading t *)
Stamped(c, t) == [c EXCEPT !.iss = config.issuer, !.iat = t, !.exp = t + config.ttl]

TokenValue(c) ==
  LET message == EncodeToString(HeaderDoc) \o <<Dot>> \o EncodeToString(marshalClaims(c))
  IN message \o <<Dot>> \o sign(config.secret, message)

NoToken == [value |-> <<>>, type |-> "", expiresAt |-> ZeroTime, issuedAt |-> ZeroTime]

GenerateResult(c, t) ==
  IF ~Marshalable(Stamped(c, t))
    THEN [err |-> "marshal claims", tok |-> NoToken]
    ELSE [err |-> "",
          tok |-> [value |-> TokenValue(Stamped(c, t)), type |-> "access",
                   expiresAt |-> t + config.ttl, issuedAt |-> t]]

(* jwtService.Validate at clock reading t, of an authority configured  *)
(* with cfg                                                               *)
ValidateUnder(cfg, str, t) ==
  LET parts == Split(str) IN
  IF ~FormatOK(parts) THEN [err |-> "invalid token format", val |-> <<>>]
  ELSE IF ~hmacEqual(parts[3], sign(cfg.secret, parts[1] \o <<Dot>> \o parts[2]))
    THEN [err |-> "invalid signature", val |-> <<>>]
  ELSE IF ~DecodeOK(parts[2]) THEN [err |-> "decode claims", val |-> <<>>]
  ELSE IF DecodeString(parts[2]).kind = "text" THEN [err |-> "unmarshal claims", val |-> <<>>]
  ELSE IF TokenExpired(unmarshalClaims(DecodeString(parts[2])).exp, t)
    THEN [err |-> "token expired", val |-> <<>>]
  ELSE [err |-> "", val |-> <<unmarshalClaims(DecodeString(parts[2]))>>]

(* jwtService.Validate at clock reading t *)
ValidateResult(str, t) == ValidateUnder(config, str, t)

(* The strings presented to Validate.  Malformed ones: "", "a", "a.b",  *)
(* "a..b", "a.b.c" and "a.b.c.d".                                         *)
Malformed ==
  { <<>>, <<Chr("a")>>, <<Chr("a"), Dot, Chr("b")>>,
    <<Chr("a"), Dot, Dot, Chr("b")>>,
    <<Chr("a"), Dot, Chr("b"), Dot, Chr("c")>>,
    <<Chr("a"), Dot, Chr("b"), Dot, Chr("c"), Dot, Chr("d")>> }

(* A token put together by someone holding key: any claims segment *)
Assemble(key, seg) ==
  LET message == EncodeToString(HeaderDoc) \o <<Dot>> \o seg
  IN message \o <<Dot>> \o sign(key, message)

(* Tokens not made by Generate: claims with a chosen expires-at signed   *)
(* under another key, and, under the authority's key (which every         *)
(* service sharing the secret holds), a claims segment that is not        *)
(* base64url, one that is empty, one that is not JSON, and a JSON object  *)
(* without any claim                                                      *)
Foreign ==
  {Assemble(OtherSecret,
            EncodeToString(marshalClaims([ClaimsOf("u1", "", ZeroTime, "", NilList, NilList)
                                            EXCEPT !.exp = e])))
     : e \in 0..MaxTime}
  \cup {Assemble(Secret, seg) :
          seg \in {<<Chr("!")>>, <<>>, EncodeToString(TextDoc), EncodeToString(HeaderDoc)}}

(* The value of an issued token with one byte of its signature segment  *)
(* replaced by another byte                                               *)
OtherBytes == {Dot, Chr("x")}
SignatureStart(str) == Len(str) - SigLen
ReplaceByte(str, i, b) == [str EXCEPT ![SignatureStart(str) + i] = b]
Tampered ==
  {ReplaceByte(issued[n].tok.value, i, b) :
     n \in 1..Len(issued), i \in 1..SigLen, b \in OtherBytes}

(* The values of the tokens given out *)
IssuedValues == {issued[n].tok.value : n \in 1..Len(issued)}

Presented == IssuedValues \cup Tampered \cup Malformed \cup Foreign

(* No authority: jwt.NewService has not returned one *)
NoConfig == [built |-> FALSE, secret |-> "", ttl |-> 0, issuer |-> ""]

(* The jwt.Config initServices passes to jwt.NewService *)
MainConfig == [built |-> TRUE, secret |-> Secret, ttl |-> AccessTokenTTL, issuer |-> Issuer]

(* The jwt.Config values a caller may pass: with and without a secret,  *)
(* and an access-token TTL that is negative, zero (the field left out of *)
(* the configuration file) or positive                                    *)
Configs ==
  {[built |-> TRUE, secret |-> k, ttl |-> d, issuer |-> Issuer] :
     k \in {"", Secret}, d \in {0 - AccessTokenTTL, 0, AccessTokenTTL}}

(* Every configuration taken *)
NewServiceAny(cfg) == TRUE

(* jwt.NewService, line 117: whether it returns an authority *)
NewServiceOK(cfg) == cfg.secret # ""

(* jwt.NewService as initServices calls it, auth.New: nothing issued yet *)
TokenInit ==
  /\ issued = <<>>
  /\ config = MainConfig

(* Before jwt.NewService is called *)
TokenInitUnbuilt ==
  /\ issued = <<>>
  /\ config = NoConfig

(* jwt.NewService *)
NewService(cfg) ==
  /\ ret = NoRet
  /\ ~config.built
  /\ IF NewServiceOK(cfg)
       THEN /\ config' = cfg
            /\ ret' = [op |-> "NewService", arg |-> cfg, err |-> ""]
       ELSE /\ config' = config
            /\ ret' = [op |-> "NewService", arg |-> cfg, err |-> "jwt secret is required"]
  /\ UNCHANGED <<now, cancelled, registryVars, sessionVars, issued>>

(* jwtService.Generate (Service.IssueToken passes its result on) *)
Generate(c) ==
  /\ ret = NoRet
  /\ config.built
  /\ LET r == GenerateResult(c, now)
     IN /\ ret' = [op |-> "Generate", arg |-> c, err |-> r.err,
                    val |-> IF r.err = "" THEN <<r.tok>> ELSE <<>>]
        /\ IF r.err = ""
             THEN /\ Len(issued) < MaxTokens
                  /\ issued' = Append(issued, [claims |-> c, tok |-> r.tok])
             ELSE issued' = issued
  /\ UNCHANGED <<now, cancelled, registryVars, sessionVars, config>>

(* jwtService.Validate (Service.ValidateToken passes its result on) *)
Validate(str) ==
  /\ ret = NoRet
  /\ config.built
  /\ LET r == ValidateResult(str, now)
     IN ret' = [op |-> "Validate", arg |-> str, err |-> r.err, val |-> r.val]
  /\ UNCHANGED <<now, cancelled, registryVars, sessionVars, tokenVars>>

(* Service.RefreshToken: Validate, then IssueToken on the claims found *)
RefreshToken(str) ==
  /\ ret = NoRet
  /\ config.built
  /\ LET v == ValidateResult(str, now)
     IN IF v.err # ""
          THEN /\ ret' = [op |-> "RefreshToken", arg |-> str, err |-> v.err, val |-> <<>>]
               /\ issued' = issued
          ELSE LET r == GenerateResult(v.val[1], now)
               IN /\ ret' = [op |-> "RefreshToken", arg |-> str, err |-> r.err,
                              val |-> IF r.err = "" THEN <<r.tok>> ELSE <<>>]
                  /\ IF r.err = ""
                       THEN /\ Len(issued) < MaxTokens + MaxRefreshes
                            /\ issued' = Append(issued, [claims |-> v.val[1], tok |-> r.tok])
                       ELSE issued' = issued
  /\ UNCHANGED <<now, cancelled, registryVars, sessionVars, config>>

(* The signing key replaced when a token is revoked *)
RevokeRotates(cfg, str) == [cfg EXCEPT !.secret = OtherSecret]

(* What Service.RevokeToken does to the authority: nothing *)
RevokeEffect(cfg, str) == cfg

(* Service.RevokeToken: a log line, a nil error, and nothing else *)
RevokeToken(str) ==
  /\ ret = NoRet
  /\ config.built
  /\ config' = RevokeEffect(config, str)
  /\ ret' = [op |-> "info", msg |-> "token revoked", arg |-> str, err |-> ""]
  /\ UNCHANGED <<now, cancelled, registryVars, sessionVars, issued>>

(* The state after construction of the three engines *)
Init ==
  /\ now = 0
  /\ cancelled = FALSE
  /\ ret = NoRet
  /\ RegistryInit
  /\ SessionInit
  /\ TokenInit

----------------------------------------------------------------------------
(* The HTTP surface: internal/middleware Authenticate and the routes of  *)
(* Application.initServer                                                 *)

(* The bytes of an Authorization header besides those of a token *)
Space == [Dot EXCEPT !.k = "sp"]
BearerWord == <<Chr("B"), Chr("e"), Chr("a"), Chr("r"), Chr("e"), Chr("r")>>
LowerWord == <<Chr("b"), Chr("e"), Chr("a"), Chr("r"), Chr("e"), Chr("r")>>
BasicWord == <<Chr("B"), Chr("a"), Chr("s"), Chr("i"), Chr("c")>>

(* strings.Split(authHeader, " ") *)
RECURSIVE fieldsFrom(_, _)
fieldsFrom(str, piece) ==
  IF str = <<>> THEN <<piece>>
  ELSE IF Head(str).k = "sp" THEN <<piece>> \o fieldsFrom(Tail(str), <<>>)
  ELSE fieldsFrom(Tail(str), Append(piece, Head(str)))

Fields(str) == fieldsFrom(str, <<>>)

(* Any header of two fields that starts with Bearer let through *)
AuthenticateAnyBearer(hdr, t) ==
  LET parts == Fields(hdr) IN
  IF hdr = <<>> THEN "missing authorization header"
  ELSE IF Len(parts) # 2 \/ parts[1] # BearerWord
    THEN "invalid authorization header format"
  ELSE ""

(* Authenticate: the text of the 401 it answers, "" when it calls next *)
AuthenticateResult(hdr, t) ==
  LET parts == Fields(hdr) IN
  IF hdr = <<>> THEN "missing authorization header"
  ELSE IF Len(parts) # 2 \/ parts[1] # BearerWord
    THEN "invalid authorization header format"
  ELSE IF ValidateResult(parts[2], t).err # "" THEN "invalid token"
  ELSE ""

HttpClaims == ClaimsOf("u1", "", ZeroTime, "", NilList, NilList)

(* A token made by a service that holds key, expiring at e *)
ServiceToken(key, e) ==
  Assemble(key, EncodeToString(marshalClaims([HttpClaims EXCEPT !.exp = e])))

(* The Authorization headers of the requests: none, the scheme alone or  *)
(* followed by a space; as bearer a token that is good throughout, one     *)
(* that expires, one signed under another key and a string that is no      *)
(* token; and the good token after another scheme, after the scheme in     *)
(* lower case, after two spaces and before a third field                   *)
Headers ==
  {<<>>, BearerWord, BearerWord \o <<Space>>}
    \cup {BearerWord \o <<Space>> \o tok :
            tok \in {ServiceToken(Secret, MaxTime), ServiceToken(Secret, 0),
                     ServiceToken(OtherSecret, MaxTime), <<Chr("a")>>}}
    \cup {BasicWord \o <<Space>> \o ServiceToken(Secret, MaxTime),
          LowerWord \o <<Space>> \o ServiceToken(Secret, MaxTime),
          BearerWord \o <<Space, Space>> \o ServiceToken(Secret, MaxTime),
          BearerWord \o <<Space>> \o ServiceToken(Secret, MaxTime) \o <<Space, Chr("x")>>}

HttpRequest == [caps |-> <<"payment">>, url |-> ""]

TokenRoutes ==
  {"POST /auth/token", "POST /auth/validate", "POST /auth/refresh", "POST /auth/revoke"}
SessionRoutes ==
  {"POST /session", "GET /session/:id", "PUT /session/:id", "DELETE /session/:id"}
RegistryRoutes ==
  {"POST /registry/register", "DELETE /registry/deregister/:id",
   "GET /registry/services", "GET /registry/discover", "PUT /registry/heartbeat/:id"}
Routes == TokenRoutes \cup SessionRoutes \cup RegistryRoutes

(* The handler a route is registered with, up to its first call into a  *)
(* service                                                                *)
Handler(route) ==
  \/ route = "POST /auth/token" /\ Generate(HttpClaims)
  \/ route = "POST /auth/validate" /\ \E str \in IssuedValues : Validate(str)
  \/ route = "POST /auth/refresh" /\ \E str \in IssuedValues : RefreshToken(str)
  \/ route = "POST /auth/revoke" /\ \E str \in IssuedValues : RevokeToken(str)
  \/ route = "POST /session" /\ Create("u1", "svc-1", "d0", 1)
  \/ route = "GET /session/:id" /\ Get(generateSessionID(0))
  \/ route = "PUT /session/:id" /\ UpdateGet(generateSessionID(0), "d1")
  \/ route = "DELETE /session/:id" /\ Delete(generateSessionID(0))
  \/ route = "POST /registry/register" /\ Register("svc-1", HttpRequest)
  \/ route = "DELETE /registry/deregister/:id" /\ Deregister("svc-1")
  \/ route = "GET /registry/services" /\ List
  \/ route = "GET /registry/discover" /\ Discover("payment")
  \/ route = "PUT /registry/heartbeat/:id" /\ HeartbeatGet("svc-1")

(* A request to a protected route: Authenticate answers 401 or calls    *)
(* the handler                                                            *)
Serve(route, hdr) ==
  LET rejected == AuthenticateResult(hdr, now)
  IN \/ /\ rejected = ""
        /\ Handler(route)
     \/ /\ rejected # ""
        /\ ret = NoRet
        /\ ret' = [op |-> "http", status |-> 401, msg |-> rejected]
        /\ UNCHANGED <<now, cancelled, registryVars, sessionVars, tokenVars>>

----------------------------------------------------------------------------
(* Specifications.  Spec is the three engines together.  The others     *)
(* restrict it to one engine, and the registry to one kind of service,    *)
(* so that each is small enough to explore exhaustively: every behaviour  *)
(* of a restricted specification is a behaviour of Spec.                  *)

HeartbeatRequests == {r \in RegisterRequests : r.url = ""}
ProbeRequests == {r \in RegisterRequests : r.url # ""}

Next ==
  \/ \E id \in Ids, req \in RegisterRequests : Register(id, req)
  \/ \E id \in Ids, req \in RegisterRequests, st \in Statuses : Seed(id, req, st)
  \/ \E id \in Ids : Deregister(id)
  \/ List
  \/ \E c \in CapArgs : Discover(c)
  \/ \E id \in Ids : HeartbeatGet(id)
  \/ HeartbeatUpdate
  \/ SweepStart
  \/ SweepCheck
  \/ SweepMark
  \/ \E i \in 1..MaxProbes, outcome \in {"200", "500", "error", "norequest"} :
        ProbeDone(i, outcome)
  \/ \E u \in UserIds, svc \in ServiceIds, d \in DataValues, ttl \in TTLs : Create(u, svc, d, ttl)
  \/ \E id \in SessionIds : Get(id)
  \/ \E id \in SessionIds, d \in DataValues : UpdateGet(id, d)
  \/ UpdateWrite
  \/ \E id \in SessionIds : Delete(id)
  \/ CleanupSweep
  \/ CleanupSweepFails
  \/ CleanupStop
  \/ SweepStartFails
  \/ HealthChecksStop
  \/ \E c \in ClaimsInputs : Generate(c)
  \/ \E str \in Presented : Validate(str)
  \/ \E str \in Presented : RefreshToken(str)
  \/ \E str \in Presented : RevokeToken(str)
  \/ Cancel
  \/ Tick
  \/ Return

Spec == Init /\ [][Next]_vars

(* Heartbeats alone, on records of every origin: registered ones, and   *)
(* ones seeded with a status other than healthy                            *)
TouchNext ==
  \/ \E id \in Ids, req \in HeartbeatRequests : Register(id, req)
  \/ \E id \in Ids, req \in HeartbeatRequests, st \in {StatusUnhealthy, StatusUnknown} :
        Seed(id, req, st)
  \/ \E id \in Ids : HeartbeatGet(id)
  \/ HeartbeatUpdate
  \/ Tick
  \/ Return

TouchSpec == Init /\ [][TouchNext]_vars

(* The registry with every writer of a record at work: one service that *)
(* registers with or without a health-check URL, heartbeats and            *)
(* deregistrations of it and of an id never registered, the sweep and its  *)
(* probes; a sweep starts when the probes of the last one have come back   *)
MonitorRequests == {r \in RegisterRequests : r.url \in {"", GoodURL}}

MonitorNext ==
  \/ \E req \in MonitorRequests : Register("svc-1", req)
  \/ \E id \in Ids : Deregister(id)
  \/ \E id \in Ids : HeartbeatGet(id)
  \/ HeartbeatUpdate
  \/ (probes = <<>> /\ SweepStart)
  \/ SweepCheck
  \/ SweepMark
  \/ \E i \in 1..MaxProbes, outcome \in {"200", "500", "error", "norequest"} :
        ProbeDone(i, outcome)
  \/ Tick
  \/ Return

MonitorSpec == Init /\ [][MonitorNext]_vars

(* The session store: requests against the cleanup sweep, as time passes *)
SessionNext ==
  \/ \E u \in UserIds, svc \in ServiceIds, ttl \in TTLs : Create(u, svc, "d0", ttl)
  \/ \E id \in SessionIds : Get(id)
  \/ \E id \in SessionIds : UpdateGet(id, "d1")
  \/ UpdateWrite
  \/ \E id \in SessionIds : Delete(id)
  \/ CleanupSweep
  \/ Tick
  \/ Return

SessionSpec == Init /\ [][SessionNext]_vars

(* The token signer/verifier: tokens are generated and strings of every *)
(* kind are presented for validation, as time passes                      *)
TokenNext ==
  \/ \E c \in ClaimsInputs : Generate(c)
  \/ \E str \in Presented : Validate(str)
  \/ Tick
  \/ Return

TokenSpec == Init /\ [][TokenNext]_vars

(* Shutdown: one session and one service, the two background tasks, and *)
(* the shutdown signal.  A response or log line is always taken; a task   *)
(* that can take a step again and again takes it in the end (the           *)
(* scheduler is fair, and select chooses at random among ready cases, so   *)
(* the shutdown case is not passed over for ever).                         *)
ShutdownNext ==
  \/ Create("u1", "svc-1", "d0", 1)
  \/ Register("svc-1", [caps |-> <<"payment">>, url |-> ""])
  \/ CleanupSweep
  \/ CleanupStop
  \/ SweepStart
  \/ SweepCheck
  \/ SweepMark
  \/ HealthChecksStop
  \/ Cancel
  \/ Tick
  \/ Return

ShutdownSpec ==
  /\ Init
  /\ [][ShutdownNext]_vars
  /\ WF_vars(Return)
  /\ SF_vars(SweepCheck)
  /\ SF_vars(SweepMark)
  /\ SF_vars(CleanupStop)
  /\ SF_vars(HealthChecksStop)

(* The cleanup task left running over a storage port that does not fail: *)
(* sessions are created, read and deleted while the clock advances, and   *)
(* the ticker keeps firing, so a sweep that can run again and again does   *)
(* run; a response or log line is always taken.                            *)
ExpiryNext ==
  \/ \E ttl \in TTLs : Create("u1", "svc-1", "d0", ttl)
  \/ \E id \in SessionIds : Get(id)
  \/ \E id \in SessionIds : Delete(id)
  \/ CleanupSweep
  \/ Tick
  \/ Return

ExpirySpec ==
  /\ Init
  /\ [][ExpiryNext]_vars
  /\ WF_vars(Return)
  /\ SF_vars(CleanupSweep)

(* The background tasks over a storage port that may fail any sweep,   *)
(* with one user's sessions and one service to sweep                       *)
FaultNext ==
  \/ Create("u1", "svc-1", "d0", 1)
  \/ Register("svc-1", [caps |-> <<"payment">>, url |-> ""])
  \/ CleanupSweep
  \/ CleanupSweepFails
  \/ SweepStart
  \/ SweepStartFails
  \/ SweepCheck
  \/ SweepMark
  \/ Tick
  \/ Return

FaultSpec == Init /\ [][FaultNext]_vars

(* The authority asked to revoke what it is asked to validate: the     *)
(* tokens it issued, and strings that are no tokens                        *)
RevokeNext ==
  \/ \E c \in ClaimsInputs : Generate(c)
  \/ \E str \in IssuedValues \cup Malformed : Validate(str)
  \/ \E str \in IssuedValues \cup Malformed : RevokeToken(str)
  \/ Tick
  \/ Return

RevokeSpec == Init /\ [][RevokeNext]_vars

(* The authority asked to refresh: its own tokens, fresh and expired,   *)
(* tampered ones, foreign ones and strings that are no tokens.  The      *)
(* tokens it issues carry bare claims, or claims with roles and metadata.  *)
RefreshClaims == {c \in ClaimsInputs : c.roles.nil = c.metadata.nil}

RefreshNext ==
  \/ \E c \in RefreshClaims : Generate(c)
  \/ \E str \in Presented : RefreshToken(str)
  \/ Tick
  \/ Return

RefreshSpec == Init /\ [][RefreshNext]_vars

(* The authority from its construction on: every configuration is      *)
(* offered to jwt.NewService, and the one accepted issues, and refreshes   *)
(* what it issued                                                          *)
ConfigNext ==
  \/ \E cfg \in Configs : NewService(cfg)
  \/ \E c \in ClaimsInputs : Generate(c)
  \/ \E str \in IssuedValues \cup Malformed : RefreshToken(str)
  \/ Tick
  \/ Return

(* The state before the authority is constructed *)
ConfigInit ==
  /\ now = 0
  /\ cancelled = FALSE
  /\ ret = NoRet
  /\ RegistryInit
  /\ SessionInit
  /\ TokenInitUnbuilt

ConfigSpec == ConfigInit /\ [][ConfigNext]_vars

(* The catalogue and its queries: records of every kind and status are  *)
(* stored and removed, and List and Discover are asked.                   *)
DiscoverNext ==
  \/ \E id \in Ids, req \in RegisterRequests : Register(id, req)
  \/ \E id \in Ids, req \in RegisterRequests, st \in Statuses : Seed(id, req, st)
  \/ \E id \in Ids : Deregister(id)
  \/ List
  \/ \E c \in CapArgs : Discover(c)
  \/ Return

DiscoverSpec == Init /\ [][DiscoverNext]_vars

(* Services without a health-check URL: heartbeats against the monitor's *)
(* heartbeat-timeout sweep, as time passes.                               *)
HeartbeatNext ==
  \/ \E id \in Ids, req \in HeartbeatRequests : Register(id, req)
  \/ \E id \in Ids : Deregister(id)
  \/ \E id \in Ids : HeartbeatGet(id)
  \/ HeartbeatUpdate
  \/ SweepStart
  \/ SweepCheck
  \/ SweepMark
  \/ Tick
  \/ Return

HeartbeatSpec == Init /\ [][HeartbeatNext]_vars

(* Services with a health-check URL: the monitor's probes.  Nothing on  *)
(* this path compares the clock with a stamp, so the clock stands still.  *)
ProbeNext ==
  \/ \E id \in Ids, req \in ProbeRequests : Register(id, req)
  \/ \E id \in Ids : Deregister(id)
  \/ SweepStart
  \/ SweepCheck
  \/ \E i \in 1..MaxProbes, outcome \in {"200", "500", "error", "norequest"} :
        ProbeDone(i, outcome)
  \/ Return

ProbeSpec == Init /\ [][ProbeNext]_vars

(* One heartbeat-only service whose record enters storage in any       *)
(* status, and the sweep over it as the clock advances                    *)
ToleranceRequest == [caps |-> <<"payment">>, url |-> ""]

ToleranceNext ==
  \/ \E st \in Statuses : Seed("svc-1", ToleranceRequest, st)
  \/ Register("svc-1", ToleranceRequest)
  \/ \E id \in Ids : HeartbeatGet(id)
  \/ HeartbeatUpdate
  \/ SweepStart
  \/ SweepCheck
  \/ SweepMark
  \/ Tick
  \/ Return

ToleranceSpec == Init /\ [][ToleranceNext]_vars

(* The server behind its routes, asked by services that hold the       *)
(* secret and sign their own tokens.  UpdateWrite and HeartbeatUpdate are *)
(* the second halves of two handlers.  The three engines share nothing    *)
(* but the clock, so a behaviour works one of them: it creates one        *)
(* session, or registers one service, or has one token issued and         *)
(* refreshed once.                                                        *)
HttpAdmits(route) ==
  /\ route \in SessionRoutes => (objs = <<>> /\ issued = <<>>)
  /\ route \in RegistryRoutes => (sessObjs = <<>> /\ issued = <<>>)
  /\ route \in TokenRoutes => (sessObjs = <<>> /\ objs = <<>>)
  /\ route = "POST /session" => (sessObjs = <<>> /\ now = 0)
  /\ route = "POST /registry/register" => objs = <<>>
  /\ route = "POST /auth/token" => issued = <<>>
  /\ route = "POST /auth/refresh" => Len(issued) = 1

HttpNext ==
  \/ \E route \in Routes, hdr \in Headers : HttpAdmits(route) /\ Serve(route, hdr)
  \/ UpdateWrite
  \/ HeartbeatUpdate
  \/ Tick
  \/ Return

HttpSpec == Init /\ [][HttpNext]_vars

(* Heartbeats and sweeps at the grain of the registry table's lock:    *)
(* the calls that are one locked section each (Register, Get) run when    *)
(* the lock admits them                                                   *)
LockNext ==
  \/ (ExclusiveHolders = {} /\ SharedHolders = {} /\ Register("svc-1", ToleranceRequest))
  \/ (ExclusiveHolders = {} /\ \E id \in Ids : HeartbeatGet(id))
  \/ HeartbeatTouch
  \/ HeartbeatLock
  \/ HeartbeatStore
  \/ SweepListLock
  \/ SweepListDone
  \/ SweepCheck
  \/ SweepMarkTouch
  \/ SweepMarkLock
  \/ SweepMarkStore
  \/ Tick
  \/ Return

LockSpec == Init /\ [][LockNext]_vars

(* One probed service whose record enters storage in any status, is     *)
(* registered again or deregistered while its probes are in flight        *)
RecoverRequest == [caps |-> <<"refund", "payment">>, url |-> GoodURL]

RecoverNext ==
  \/ \E st \in Statuses : Seed("svc-1", RecoverRequest, st)
  \/ Register("svc-1", RecoverRequest)
  \/ Deregister("svc-1")
  \/ SweepStart
  \/ SweepCheck
  \/ \E i \in 1..MaxProbes, outcome \in {"200", "500", "error"} :
        ProbeDone(i, outcome)
  \/ Return

RecoverSpec == Init /\ [][RecoverNext]_vars

(* The monitor of probed services through a shutdown: the probes in    *)
(* flight answer 200 or are cut off by the signal                         *)
InterruptNext ==
  \/ \E id \in Ids : Register(id, RecoverRequest)
  \/ SweepStart
  \/ SweepCheck
  \/ \E i \in 1..MaxProbes, outcome \in {"200", "canceled"} : ProbeDone(i, outcome)
  \/ Cancel
  \/ HealthChecksStop
  \/ Return

InterruptSpec == Init /\ [][InterruptNext]_vars

----------------------------------------------------------------------------
(* Properties *)

StoredIds == {id \in Ids : services[id] # NoObj}

(* The stored record of id *)
Rec(id) == objs[services[id]]

(* Whether some Discover asked in this state would return the record o *)
Discoverable(o) ==
  \E c \in CapArgs, l \in RepoList(services) :
     o \in Range(discoverLoop(objs, l, c))

(* C1: Discover(c) returns exactly the stored records whose status is    *)
(* healthy and, when c is not empty, whose capability list contains c;   *)
(* each once.  Records that are unhealthy or unknown are never returned. *)
C1_DiscoverExact ==
  ret.op = "Discover" =>
    /\ Range(ret.val) =
         {services[id] : id \in {i \in StoredIds :
             /\ Rec(i).status = StatusHealthy
             /\ ret.arg = "" \/ ret.arg \in Range(Rec(i).caps)}}
    /\ Len(ret.val) = Cardinality(Range(ret.val))

(* A Discover("payment") that returned one record and held back another  *)
(* that advertises payment but is not healthy                             *)
C1_Witness ==
  /\ ret.op = "Discover"
  /\ ret.arg = "payment"
  /\ Len(ret.val) = 1
  /\ \E id \in StoredIds :
        /\ Rec(id).status \in {StatusUnhealthy, StatusUnknown}
        /\ "payment" \in Range(Rec(id).caps)

(* C2: the sweep marks every record without health-check URL whose last  *)
(* heartbeat is more than 2 x interval old: once the sweep has dealt     *)
(* with it, it is the record stored under its id and its status is       *)
(* unhealthy.  An unhealthy record without URL stays out of every        *)
(* Discover result until a heartbeat for it arrives.                     *)
C2_HeartbeatTimeout ==
  [][ /\ ( /\ SweepCheck
           /\ objs[Head(sweep.list)].url = ""
           /\ now - objs[Head(sweep.list)].lastHeartbeat > 2 * HealthCheckInterval )
         => ( /\ sweep'.pc = "mark"
              /\ sweep'.cur = Head(sweep.list) )
      /\ (SweepMark /\ objs[sweep.cur].id \in StoredIds)
         => /\ services'[objs[sweep.cur].id] = sweep.cur
            /\ objs'[sweep.cur].status = StatusUnhealthy
      /\ \A o \in 1..Len(objs) :
           ( /\ objs[o].url = ""
             /\ objs[o].status = StatusUnhealthy
             /\ ~(HeartbeatUpdate /\ hb.obj = o) )
           => ~Discoverable(o)'
    ]_vars

(* The sweep has just marked a stored record whose heartbeat was more    *)
(* than 2 x interval old                                                  *)
C2_Witness ==
  /\ ret.op = "warn"
  /\ ret.msg = "service marked unhealthy (heartbeat timeout)"
  /\ ret.id \in StoredIds
  /\ services[ret.id] = ret.val[1]
  /\ Rec(ret.id).via = "Register"
  /\ Rec(ret.id).status = StatusUnhealthy
  /\ now - Rec(ret.id).lastHeartbeat > 2 * HealthCheckInterval

(* C3: the sweep dispatches a probe for every listed record that has a  *)
(* health-check URL; when a probe comes back with anything but 200 the   *)
(* record stored under its id is the probed one and is unhealthy, and    *)
(* when it comes back with 200 the stored record it probed is healthy    *)
(* and discoverable again.                                               *)
C3_ProbeTransitions ==
  [][ /\ (SweepCheck /\ objs[Head(sweep.list)].url # "")
         => probes' = Append(probes, [obj |-> Head(sweep.list)])
      /\ \A i \in 1..Len(probes), o \in 1..Len(objs), id \in Ids :
           (o = probes[i].obj /\ id = objs[o].id)
           => /\ ( /\ \E outcome \in {"500", "error"} : ProbeDone(i, outcome)
                   /\ id \in StoredIds )
                 => /\ services'[id] = o
                    /\ objs'[o].status = StatusUnhealthy
              /\ ( /\ ProbeDone(i, "200")
                   /\ id \in StoredIds
                   /\ services[id] = o )
                 => /\ services'[id] = o
                    /\ objs'[o].status = StatusHealthy
                    /\ Discoverable(o)'
    ]_vars

(* A registered record that a failed probe had made unhealthy has just   *)
(* recovered on a 200                                                     *)
C3_Witness ==
  /\ ret.op = "info"
  /\ ret.msg = "service recovered"
  /\ ret.id \in StoredIds
  /\ services[ret.id] = ret.val[1]
  /\ Rec(ret.id).via = "Register"
  /\ Rec(ret.id).status = StatusHealthy

----------------------------------------------------------------------------
(* Properties of the session store *)

StoredSessions == {id \in SessionIds : sessions[id] # NoObj}
Sess(id) == sessObjs[sessions[id]]

(* C4: a Get of a stored session issued later than its expires-at answers *)
(* "session expired" and hands out no record, swept or not, and the Get    *)
(* leaves the table and every record as they were.                         *)
C4_GetExpired ==
  [][ \A id \in SessionIds :
        (Get(id) /\ id \in StoredSessions /\ now > Sess(id).expiresAt)
        => /\ ret'.err = "session expired"
           /\ ret'.val = <<>>
           /\ sessions' = sessions
           /\ sessObjs' = sessObjs ]_vars

(* C4 happens: Expired was answered for a session that is still stored *)
C4_Witness ==
  /\ ret.op = "Get"
  /\ ret.err = "session expired"
  /\ ret.id \in StoredSessions
  /\ now > Sess(ret.id).expiresAt

(* C5: one DeleteExpired sweep removes exactly the stored sessions whose  *)
(* expires-at is earlier than the clock at the sweep, reports how many     *)
(* they were, and leaves every other session stored and unchanged.         *)
C5_SweepExact ==
  [][ CleanupSweep =>
        /\ \A id \in SessionIds :
             /\ (id \in StoredSessions /\ Sess(id).expiresAt < now)
                => sessions'[id] = NoObj
             /\ (id \in StoredSessions /\ Sess(id).expiresAt >= now)
                => /\ sessions'[id] = sessions[id]
                   /\ sessObjs'[sessions[id]] = sessObjs[sessions[id]]
             /\ id \notin StoredSessions => sessions'[id] = NoObj
        /\ ret'.val = Cardinality({id \in StoredSessions : Sess(id).expiresAt < now}) ]_vars

(* C5 happens: a sweep removed a session and kept one expiring just now *)
C5_Witness ==
  /\ ret.op = "DeleteExpired"
  /\ ret.val = 1
  /\ \E id \in StoredSessions : Sess(id).expiresAt = now

(* C10: the session a successful Create stores carries created-at =      *)
(* updated-at = the clock at the call and expires-at = created-at + ttl,  *)
(* where ttl = 0 stands for the configured default.                        *)
C10_CreateStamps ==
  (ret.op = "Create" /\ ret.err = "") =>
    /\ ret.val[1] \in {sessions[id] : id \in SessionIds}
    /\ sessObjs[ret.val[1]].createdAt = now
    /\ sessObjs[ret.val[1]].updatedAt = now
    /\ sessObjs[ret.val[1]].expiresAt
         = sessObjs[ret.val[1]].createdAt + (IF ret.ttl = 0 THEN DefaultTTL ELSE ret.ttl)

(* C10 happens: a Create with ttl = 0, later than the start *)
C10_Witness ==
  /\ ret.op = "Create"
  /\ ret.err = ""
  /\ ret.ttl = 0
  /\ now > 0
  /\ sessObjs[ret.val[1]].expiresAt = now + DefaultTTL

----------------------------------------------------------------------------
(* Properties of the token authority *)

(* The number of '.' bytes of a string *)
Dots(str) == Cardinality({i \in 1..Len(str) : str[i].k = "dot"})

(* The claims a three-segment string carries, when its middle segment   *)
(* is the base64url text of a JSON object                                 *)
CarriesClaims(str) ==
  /\ Dots(str) = 2
  /\ Len(Split(str)[2]) = 1
  /\ Split(str)[2][1].k = "b64"
  /\ Split(str)[2][1].doc.kind # "text"
Carried(str) == unmarshalClaims(Split(str)[2][1].doc)

(* The third segment is the signature of the first two under the        *)
(* authority's secret                                                     *)
WellSigned(str) ==
  Split(str)[3] = sign(Secret, Split(str)[1] \o <<Dot>> \o Split(str)[2])

(* Equal in every field Generate does not stamp *)
SameApartFromStamps(a, b) ==
  /\ a.sub = b.sub
  /\ a.aud = b.aud
  /\ a.nbf = b.nbf
  /\ a.jti = b.jti
  /\ a.roles = b.roles
  /\ a.metadata = b.metadata

(* Claims in the form a JSON decoder leaves them in: roles and metadata *)
(* nil when empty, metadata values strings or float64                     *)
JSONForm(c) ==
  /\ c.roles.nil \/ Len(c.roles.v) > 0
  /\ c.metadata.nil \/ Len(c.metadata.v) > 0
  /\ \A i \in 1..Len(c.metadata.v) : c.metadata.v[i].val.t \in {"string", "float64"}

(* C6 as stated: for every claims value C, Validate of the token        *)
(* Generate(C) returned, applied at once, succeeds with claims equal to C *)
(* in subject, audience, not-before, token-id, roles and metadata.        *)
C6_RoundTripEveryClaims ==
  \A n \in 1..Len(issued) :
    (ret.op = "Validate" /\ ret.arg = issued[n].tok.value /\ now = issued[n].tok.issuedAt)
    => /\ ret.err = ""
       /\ SameApartFromStamps(ret.val[1], issued[n].claims)

(* C6 amended: for every claims value C in JSON-decoded form, Validate  *)
(* of the token Generate(C) returned, applied no later than the token's   *)
(* expires-at, succeeds with claims equal to C in subject, audience,      *)
(* not-before, token-id, roles and metadata.                              *)
C6_RoundTrip ==
  \A n \in 1..Len(issued) :
    (/\ ret.op = "Validate"
     /\ ret.arg = issued[n].tok.value
     /\ now <= issued[n].tok.expiresAt
     /\ JSONForm(issued[n].claims))
    => /\ ret.err = ""
       /\ SameApartFromStamps(ret.val[1], issued[n].claims)

(* C6 happens: a token carrying audience, not-before, token-id, roles   *)
(* and metadata was validated at its expires-at                           *)
C6_Witness ==
  /\ ret.op = "Validate"
  /\ ret.err = ""
  /\ \E n \in 1..Len(issued) :
       /\ ret.arg = issued[n].tok.value
       /\ now = issued[n].tok.expiresAt
       /\ JSONForm(issued[n].claims)
       /\ Len(issued[n].claims.roles.v) = 2
       /\ Len(issued[n].claims.metadata.v) = 2
       /\ SameApartFromStamps(ret.val[1], issued[n].claims)

(* C7 as stated: Validate of a three-segment token whose claims carry   *)
(* an expires-at in the past answers "token expired", whatever its        *)
(* signature.                                                             *)
C7_ExpiredWhateverSignature ==
  (ret.op = "Validate" /\ CarriesClaims(ret.arg) /\ Carried(ret.arg).exp < now)
  => ret.err = "token expired"

(* C7 amended: Validate of a three-segment token whose claims carry an  *)
(* expires-at in the past answers "token expired" when its signature is   *)
(* valid and "invalid signature" when it is not.                          *)
C7_ExpiredAfterSignature ==
  (ret.op = "Validate" /\ CarriesClaims(ret.arg) /\ Carried(ret.arg).exp < now)
  => ret.err = (IF WellSigned(ret.arg) THEN "token expired" ELSE "invalid signature")

(* C7 happens: an issued token was validated after its expires-at *)
C7_Witness ==
  /\ ret.op = "Validate"
  /\ ret.err = "token expired"
  /\ \E n \in 1..Len(issued) :
       /\ ret.arg = issued[n].tok.value
       /\ issued[n].tok.expiresAt < now

(* C8 as stated: Validate of an issued token with any one byte of its   *)
(* signature segment replaced by any different byte answers "invalid      *)
(* signature".                                                            *)
C8_AnyByteInvalidSignature ==
  (ret.op = "Validate" /\ ret.arg \in Tampered) => ret.err = "invalid signature"

(* C8 amended: Validate of an issued token with any one byte of its     *)
(* signature segment replaced by any different byte other than '.'        *)
(* answers "invalid signature"; with the byte replaced by '.' it answers  *)
(* "invalid token format".                                                *)
C8_ByteInvalidSignature ==
  \A n \in 1..Len(issued), i \in 1..SigLen, b \in OtherBytes :
    (ret.op = "Validate" /\ ret.arg = ReplaceByte(issued[n].tok.value, i, b))
    => ret.err = (IF b = Dot THEN "invalid token format" ELSE "invalid signature")

(* C8 happens: the last byte of an issued token's signature was         *)
(* replaced by a byte other than '.', before the token expired            *)
C8_Witness ==
  /\ ret.op = "Validate"
  /\ ret.err = "invalid signature"
  /\ \E n \in 1..Len(issued) :
       /\ ret.arg = ReplaceByte(issued[n].tok.value, SigLen, Chr("x"))
       /\ now <= issued[n].tok.expiresAt

(* C9: Validate of a string that is not three '.'-separated segments    *)
(* (two '.' bytes) answers "invalid token format" and returns no claims,  *)
(* whatever its signature and expiry would be.                            *)
C9_InvalidFormat ==
  (ret.op = "Validate" /\ Dots(ret.arg) # 2)
  => /\ ret.err = "invalid token format"
     /\ ret.val = <<>>

(* C9 happens: the empty string was presented *)
C9_Witness ==
  /\ ret.op = "Validate"
  /\ ret.arg = <<>>
  /\ ret.err = "invalid token format"

----------------------------------------------------------------------------
(* Properties of the session store: Create on a taken identifier, Update *)
(* and Delete                                                              *)

(* Every stored session other than id keeps its entry and its record *)
OthersKept(id) ==
  \A other \in SessionIds \ {id} :
    /\ sessions'[other] = sessions[other]
    /\ other \in StoredSessions => sessObjs'[sessions[other]] = sessObjs[sessions[other]]

(* C11: a Create whose generated identifier (the clock reading) is       *)
(* already stored fails with "session already exists" and leaves the      *)
(* table and every record, the existing session included, as they were.   *)
C11_CreateNoOverwrite ==
  [][ \A u \in UserIds, svc \in ServiceIds, d \in DataValues, ttl \in TTLs :
        (Create(u, svc, d, ttl) /\ generateSessionID(now) \in StoredSessions)
        => /\ ret'.err = "create session: session already exists"
           /\ ret'.val = <<>>
           /\ sessions' = sessions
           /\ sessObjs' = sessObjs ]_vars

(* C11 happens: a second Create at the clock reading of a stored session, *)
(* asking for another expires-at than the stored one has                  *)
C11_Witness ==
  /\ ret.op = "Create"
  /\ ret.err = "create session: session already exists"
  /\ generateSessionID(now) \in StoredSessions
  /\ Sess(generateSessionID(now)).createdAt = now
  /\ Sess(generateSessionID(now)).expiresAt # now + EffectiveTTL(ret.ttl, DefaultTTL)

(* C12: Update of a stored session that has not expired goes on to write: *)
(* the write replaces the payload and sets updated-at to the clock at the  *)
(* write, changing nothing else.  Update of an expired session fails with  *)
(* "session expired", of an unknown id with "session not found", and both  *)
(* leave the table and every record as they were.                          *)
C12_Update ==
  [][ /\ \A id \in SessionIds, d \in DataValues :
           UpdateGet(id, d) =>
             IF id \notin StoredSessions
               THEN /\ ret'.err = "get session: session not found"
                    /\ upd' = upd /\ sessions' = sessions /\ sessObjs' = sessObjs
             ELSE IF now > Sess(id).expiresAt
               THEN /\ ret'.err = "session expired"
                    /\ upd' = upd /\ sessions' = sessions /\ sessObjs' = sessObjs
             ELSE /\ upd' = [pc |-> "write", id |-> id, obj |-> sessions[id], data |-> d]
                  /\ ret' = NoRet
      /\ (UpdateWrite /\ sessions[upd.id] = upd.obj)
           => /\ ret'.err = ""
              /\ sessions' = sessions
              /\ sessObjs'[upd.obj] =
                   [sessObjs[upd.obj] EXCEPT !.data = upd.data, !.updatedAt = now]
              /\ OthersKept(upd.id) ]_vars

(* C12 happens: an Update later than the Create changed the payload *)
C12_Witness ==
  /\ ret.op = "Update"
  /\ ret.err = ""
  /\ ret.id \in StoredSessions
  /\ Sess(ret.id).data = "d1"
  /\ Sess(ret.id).updatedAt = now
  /\ Sess(ret.id).createdAt < now

(* C13: Delete(id) succeeds whether or not id is stored (so a repeated   *)
(* Delete succeeds too), a Get(id) after it finds nothing, and every      *)
(* other session keeps its entry and its record.                          *)
C13_DeleteIdempotent ==
  [][ \A id \in SessionIds :
        Delete(id)
        => /\ ret'.err = ""
           /\ sessions'[id] = NoObj
           /\ GetResult(sessObjs', sessions', id, now').err = "get session: session not found"
           /\ OthersKept(id) ]_vars

(* C13 happens: the only session ever created is still stored, so the   *)
(* Delete that just succeeded was of an id that is not stored             *)
C13_Witness ==
  /\ ret.op = "Delete"
  /\ ret.err = ""
  /\ Len(sessObjs) = 1
  /\ StoredSessions # {}
  /\ ret.id \notin StoredSessions

(***************************************************************************)
(* Registry contracts                                                      *)
(***************************************************************************)

(* C14: after Register(record) has succeeded the table holds exactly one  *)
(* record under that identifier, the cell the call just made, with status *)
(* healthy and registered-at = last-heartbeat = the time of the call,     *)
(* whatever status the caller's record carried and whatever record the    *)
(* identifier named before.                                               *)
C14_RegisterStamps ==
  (ret.op = "Register" /\ ret.err = "") =>
     /\ services[ret.id] = ret.val[1]
     /\ Cardinality({i \in StoredIds : Rec(i).id = ret.id}) = 1
     /\ Rec(ret.id).id = ret.id
     /\ Rec(ret.id).status = StatusHealthy
     /\ Rec(ret.id).registeredAt = now
     /\ Rec(ret.id).lastHeartbeat = now

(* A service marked unhealthy registers again: the sweep still holds the  *)
(* old, unhealthy cell while the table answers with the new one.           *)
C14_Witness ==
  /\ ret.op = "Register" /\ ret.err = "" /\ now > 0
  /\ Rec(ret.id).status = StatusHealthy
  /\ \E o \in Range(sweep.list) :
        /\ o # ret.val[1]
        /\ objs[o].id = ret.id
        /\ objs[o].status = StatusUnhealthy

(* The ids of the records a List, or a Discover of capability c, would    *)
(* answer with from table tbl over heap                                   *)
ListedIds(heap, tbl) ==
  {heap[l[k]].id : l \in RepoList(tbl), k \in 1..Cardinality({i \in Ids : tbl[i] # NoObj})}

DiscoveredIds(heap, tbl, c) ==
  UNION {{heap[o].id : o \in Range(discoverLoop(heap, l, c))} : l \in RepoList(tbl)}

(* C15: Deregister(id) succeeds whether or not id is registered (so a    *)
(* repeated Deregister succeeds too); after it neither List nor any        *)
(* Discover answers with id, and every other identifier keeps its entry    *)
(* and its record.                                                         *)
C15_DeregisterIdempotent ==
  [][ \A id \in Ids :
        Deregister(id)
        => /\ ret'.err = ""
           /\ services'[id] = NoObj
           /\ id \notin ListedIds(objs', services')
           /\ \A c \in CapArgs : id \notin DiscoveredIds(objs', services', c)
           /\ \A j \in Ids \ {id} :
                 /\ services'[j] = services[j]
                 /\ services[j] # NoObj => objs'[services[j]] = objs[services[j]] ]_vars

(* C15 happens: the only record ever stored is still there, healthy and   *)
(* discoverable, so the Deregister that just succeeded was of an id that   *)
(* is not registered.                                                      *)
C15_Witness ==
  /\ ret.op = "Deregister"
  /\ ret.err = ""
  /\ Len(objs) = 1
  /\ StoredIds # {}
  /\ ret.id \notin StoredIds
  /\ ListedIds(objs, services) = StoredIds

(* C16: Heartbeat(id) on a registered id sets last-heartbeat to the time  *)
(* of the call and status to healthy, from any prior status, and changes  *)
(* no other field of that record, no table entry and no other record.     *)
(* The read of a registered id always goes on to the write; the write is  *)
(* judged when the cell read is still the one the table holds.            *)
C16_Heartbeat ==
  [][ /\ \A id \in Ids :
            (HeartbeatGet(id) /\ services[id] # NoObj)
            => (ret' = NoRet /\ hb'.pc = "touch" /\ hb'.obj = services[id])
      /\ (HeartbeatUpdate /\ services[hb.id] = hb.obj)
         => /\ ret'.err = ""
            /\ services' = services
            /\ objs'[hb.obj] = [objs[hb.obj] EXCEPT !.lastHeartbeat = now,
                                                    !.status = StatusHealthy]
            /\ \A j \in Ids \ {hb.id} :
                  services[j] # NoObj => objs'[services[j]] = objs[services[j]] ]_vars

(* C16 happens: a record stored earlier with a status other than healthy  *)
(* has just been touched by a heartbeat and is healthy, stamped now.      *)
C16_Witness ==
  /\ ret.op = "Heartbeat"
  /\ ret.err = ""
  /\ ret.id \in StoredIds
  /\ Rec(ret.id).via = "Seed"
  /\ Rec(ret.id).status = StatusHealthy
  /\ Rec(ret.id).lastHeartbeat = now
  /\ Rec(ret.id).registeredAt < now

(* C17: Heartbeat(id) on an identifier that is not registered fails with  *)
(* NotFound, at its read or, when the entry went away after the read, at  *)
(* its write-back; and no step other than a registration gives an entry   *)
(* to an identifier that has none: not the heartbeat's write-back, not     *)
(* the sweep's, not a probe's.                                             *)
C17_NoResurrection ==
  [][ /\ \A id \in Ids :
            (HeartbeatGet(id) /\ services[id] = NoObj)
            => (ret'.op = "Heartbeat" /\ ret'.err = "NotFound" /\ hb' = hb)
      /\ (HeartbeatUpdate /\ services[hb.id] = NoObj)
            => (ret'.op = "Heartbeat" /\ ret'.err = "NotFound")
      /\ \A id \in Ids :
            (services[id] = NoObj /\ services'[id] # NoObj)
            => (ret'.op \in {"Register", "Seed"} /\ ret'.id = id) ]_vars

(* C17 happens: a heartbeat read the record, the id was deregistered,    *)
(* and the write-back has just answered NotFound on the cell it touched,  *)
(* leaving the id without entry                                           *)
C17_Witness ==
  /\ ret.op = "Heartbeat"
  /\ ret.err = "NotFound"
  /\ ret.val # <<>>
  /\ ret.id \notin StoredIds

(* C18: a record created through Register has status healthy or           *)
(* unhealthy, never unknown (and never any other value), whatever         *)
(* registrations, heartbeats, deregistrations, sweeps and probe           *)
(* completions have run since; this holds of every such record still in   *)
(* use, stored or held by a sweep, a probe or a heartbeat.                *)
C18_NeverUnknown ==
  \A o \in 1..Len(objs) :
     objs[o].via = "Register" => objs[o].status \in {StatusHealthy, StatusUnhealthy}

(* C18 happens: the monitor has just marked a registered record, which    *)
(* is stored with status unhealthy                                        *)
C18_Witness ==
  /\ ret.op = "warn"
  /\ ret.id \in StoredIds
  /\ services[ret.id] = ret.val[1]
  /\ Rec(ret.id).via = "Register"
  /\ Rec(ret.id).status = StatusUnhealthy

(***************************************************************************)
(* Token authority: configuration                                          *)
(***************************************************************************)

(* C19: every token issued, by Generate or through RefreshToken, carries  *)
(* claims whose expires-at is strictly later than issued-at, with          *)
(* issued-at = the time of issue and expires-at = issued-at + the          *)
(* configured access TTL, under every configuration jwt.NewService         *)
(* accepts.                                                                *)
C19_ExpiresAfterIssued ==
  /\ \A n \in 1..Len(issued) :
        LET c == Carried(issued[n].tok.value) IN
        /\ c.exp > c.iat
        /\ c.exp = c.iat + config.ttl
        /\ issued[n].tok.expiresAt = c.exp
        /\ issued[n].tok.issuedAt = c.iat
  /\ (ret.op \in {"Generate", "RefreshToken"} /\ ret.err = "")
        => ret.val[1].issuedAt = now

(* C20 as stated: on a constructed authority Generate succeeds for every  *)
(* claims value.                                                          *)
C20_GenerateNeverFails ==
  (ret.op = "Generate" /\ config.built) => ret.err = ""

(* Whether JSON can represent every metadata value of the claims *)
Representable(c) ==
  \A i \in 1..Len(c.metadata.v) : c.metadata.v[i].val.t \in {"string", "int", "float64"}

(* C20, amended: jwt.NewService rejects exactly the configurations with   *)
(* an empty secret, so a constructed authority always has one; on it      *)
(* Generate fails exactly for claims whose metadata holds a value JSON     *)
(* cannot represent, with a marshal error, and succeeds for every other    *)
(* claims value.                                                          *)
C20_GenerateFailsOnlyOnMarshal ==
  /\ config.built => config.secret # ""
  /\ ret.op = "NewService" => (ret.err = "" <=> ret.arg.secret # "")
  /\ ret.op = "Generate"
       => /\ ret.err \in {"", "marshal claims"}
          /\ ret.err = "" <=> Representable(ret.arg)

(* C20 happens: an authority constructed with a secret has just refused   *)
(* claims it cannot serialise                                             *)
C20_Witness ==
  /\ ret.op = "Generate"
  /\ ret.err = "marshal claims"
  /\ config.built
  /\ config.secret # ""
  /\ issued # <<>>

(***************************************************************************)
(* Token authority: revocation and refresh                                 *)
(***************************************************************************)

C22_RefreshIffValid ==
  [][ (ret = NoRet /\ ret'.op = "RefreshToken")
        => LET v == ValidateResult(ret'.arg, now) IN
           /\ (ret'.err = "") <=> (v.err = "")
           /\ ret'.err = v.err
           /\ v.err # "" => (issued' = issued /\ ret'.val = <<>>)
           /\ v.err = ""
                => /\ Len(issued') = Len(issued) + 1
                   /\ \A n \in 1..Len(issued) : issued'[n] = issued[n]
                   /\ ret'.val = <<issued'[Len(issued')].tok>>
                   /\ ret'.val[1].type = "access"
                   /\ ret'.val[1].issuedAt = now
                   /\ ret'.val[1].expiresAt = now + config.ttl
                   /\ CarriesClaims(ret'.val[1].value)
                   /\ SameApartFromStamps(Carried(ret'.val[1].value), v.val[1])
                   /\ Carried(ret'.val[1].value).iss = config.issuer
                   /\ Carried(ret'.val[1].value).iat = now
                   /\ Carried(ret'.val[1].value).exp = now + config.ttl
                   /\ ValidateUnder(config, ret'.val[1].value, now).err = "" ]_vars

(* C22 happens: an access token carrying roles and metadata was           *)
(* presented as a refresh token after the clock had moved on, and the     *)
(* token given out carries its claims, stamped anew                       *)
C22_Witness ==
  /\ ret.op = "RefreshToken"
  /\ ret.err = ""
  /\ Len(issued) = 2
  /\ issued[1].tok.type = "access"
  /\ Len(issued[1].claims.roles.v) = 2
  /\ issued[2].tok.issuedAt > issued[1].tok.issuedAt
  /\ issued[2].tok.value # issued[1].tok.value
  /\ SameApartFromStamps(Carried(issued[2].tok.value), Carried(issued[1].tok.value))

(***************************************************************************)
(* Background tasks                                                        *)
(***************************************************************************)

(* Both tasks return once the signal is up *)
TasksReturn == cancelled ~> (cleanup = "stopped" /\ sweep.pc = "stopped")

(* C24: once the shutdown signal is up neither background task starts     *)
(* another sweep (no DeleteExpired call, no health-check pass), and both  *)
(* tasks eventually return.                                                *)
C24_NoSweepAfterShutdown ==
  /\ [][cancelled => (~CleanupSweep /\ ~SweepStart)]_vars
  /\ TasksReturn

(* C25: a storage error during one cleanup sweep or one health-monitor    *)
(* sweep ends only that iteration: the failed sweep changes nothing, the  *)
(* task is still running after it, however many sweeps failed before, and *)
(* the next tick is taken by a sweep again (the sweep that follows a      *)
(* failure does what a sweep does).                                       *)
C25_SweepErrorsNotTerminal ==
  /\ [][ /\ (CleanupSweepFails
               => /\ cleanup' = "running"
                  /\ UNCHANGED <<sessObjs, sessions, upd>>)
          /\ (SweepStartFails
               => /\ sweep'.pc = "idle"
                  /\ UNCHANGED <<objs, services, sweep, probes>>) ]_vars
  /\ [](cleanup = "running" /\ sweep.pc # "stopped")
  /\ []((ret = NoRet /\ sweep.pc = "idle") => (ENABLED CleanupSweep /\ ENABLED SweepStart))

(* C25 happens: a cleanup sweep has just failed while an expired session  *)
(* is stored and a service is registered: both are there for the next one *)
C25_Witness ==
  /\ ret.op = "error"
  /\ ret.msg = "failed to delete expired sessions"
  /\ cleanup = "running"
  /\ \E id \in StoredSessions : IsExpired(Sess(id), now)
  /\ StoredIds # {}

(***************************************************************************)
(* Session store: Update against Delete and the cleanup sweep              *)
(***************************************************************************)

(* C26 as stated: when a Delete(id) has come between the read and the     *)
(* write of an Update(id, data), the Update can complete without error    *)
(* and leave id present again.                                            *)
C26_UpdateCanResurrect ==
  (ret.op = "Delete" /\ upd.pc = "write" /\ upd.id = ret.id)
  => ENABLED (Return /\ (ENABLED (UpdateWrite /\ ret'.err = "" /\ sessions'[upd.id] # NoObj))')

(* C26, amended: when a Delete(id) has come between the read and the      *)
(* write of an Update(id, data) and id is still absent at the write, the  *)
(* Update does not complete without error and brings no record back: it   *)
(* fails, and the table is as the Delete left it.                         *)
C26_UpdateNeverResurrects ==
  [][ (UpdateWrite /\ upd.id \notin StoredSessions)
        => /\ ret'.op = "Update"
           /\ ret'.err # ""
           /\ sessions' = sessions ]_vars

(* C26 happens: the write of an Update has just failed on a session that  *)
(* had not expired (no sweep could have taken it: a Delete did), and the  *)
(* id is absent                                                           *)
C26_Witness ==
  /\ ret.op = "Update"
  /\ ret.err = "update session: session not found"
  /\ ret.id \notin StoredSessions
  /\ now <= ret.id[2] + 1

(* C27: when the session an Update(id, data) has read is gone from        *)
(* storage at its write, taken by a Delete or by the cleanup sweep, the   *)
(* Update fails with NotFound and id stays absent.                        *)
C27_UpdateVanished ==
  [][ (UpdateWrite /\ sessions[upd.id] = NoObj)
        => /\ ret'.err = "update session: session not found"
           /\ ret'.id = upd.id
           /\ sessions'[upd.id] = NoObj
           /\ \A t \in now..MaxTime :
                 GetResult(sessObjs', sessions', upd.id, t).err = "get session: session not found" ]_vars

(* C27 happens: an Update read a session, the session expired and the     *)
(* cleanup sweep took it, and the write has just failed with NotFound     *)
C27_Witness ==
  /\ ret.op = "Update"
  /\ ret.err = "update session: session not found"
  /\ ret.id \notin StoredSessions
  /\ now > ret.id[2] + DefaultTTL
  /\ Len(sessObjs) = 1

----------------------------------------------------------------------------
(* C30: a probe that comes back with 200 for a record whose status is   *)
(* healthy changes nothing: no record, no table entry, no log line.  One  *)
(* that comes back with 200 for a record whose status is unhealthy or     *)
(* unknown sets the status healthy, hands the record to the storage       *)
(* write, after which a stored id maps to the probed record, and logs     *)
(* the recovery.                                                          *)
C30_Probe200 ==
  [][ \A i \in 1..Len(probes) :
        ProbeDone(i, "200")
        => LET o == probes[i].obj
               id == objs[o].id
           IN IF objs[o].status = StatusHealthy
                THEN /\ services' = services
                     /\ ret' = NoRet
                     /\ \A p \in 1..Len(objs) :
                          objs'[p] # DeadObj => objs'[p] = objs[p]
                ELSE /\ objs[o].status \in {StatusUnhealthy, StatusUnknown}
                     /\ services' = RepoUpdate(services, id, o)
                     /\ id \in StoredIds
                        => /\ services'[id] = o
                           /\ objs'[o] = [objs[o] EXCEPT !.status = StatusHealthy]
                     /\ \A p \in 1..Len(objs) :
                          (p # o /\ objs'[p] # DeadObj) => objs'[p] = objs[p]
                     /\ ret'.op = "info"
                     /\ ret'.msg = "service recovered"
                     /\ ret'.id = id
    ]_vars

(* A record that entered storage with a status other than healthy has   *)
(* just been probed with a 200, while a second probe of the same record   *)
(* is still in flight                                                     *)
C30_Witness ==
  /\ ret.op = "info"
  /\ ret.msg = "service recovered"
  /\ ret.id \in StoredIds
  /\ services[ret.id] = ret.val[1]
  /\ Rec(ret.id).via = "Seed"
  /\ Rec(ret.id).status = StatusHealthy
  /\ \E i \in 1..Len(probes) : probes[i].obj = ret.val[1]

----------------------------------------------------------------------------
(* C29: when the sweep comes to a record without health-check URL whose *)
(* last heartbeat is at most 2 x interval old, it passes on to the next   *)
(* record: it does not go on to the marking step, the one that sets the   *)
(* status, writes to storage and logs, and it changes no record and no    *)
(* table entry and logs nothing itself.  This whatever the record's       *)
(* status, and with an age of exactly 2 x interval.                       *)
C29_WithinToleranceNoAction ==
  [][ ( /\ SweepCheck
        /\ objs[Head(sweep.list)].url = ""
        /\ now - objs[Head(sweep.list)].lastHeartbeat <= 2 * HealthCheckInterval )
      => /\ sweep' = SweepAdvance(Tail(sweep.list))
         /\ services' = services
         /\ ret' = NoRet
    ]_vars

----------------------------------------------------------------------------
(* C28: a step that changes a field of a stored service record is taken *)
(* by a task that holds the table's exclusive lock, while no task holds   *)
(* the shared lock.                                                       *)
C28_WritesUnderLock ==
  [][ \A id \in StoredIds :
        (services'[id] = services[id] /\ objs'[services[id]] # objs[services[id]])
        => /\ ExclusiveHolders # {}
           /\ SharedHolders = {}
    ]_vars

----------------------------------------------------------------------------
(* The token of a header of the form the API asks for, "Bearer <token>" *)
BearerToken(hdr) == SubSeq(hdr, Len(BearerWord) + 2, Len(hdr))

BearerForm(hdr) ==
  /\ Len(hdr) > Len(BearerWord)
  /\ SubSeq(hdr, 1, Len(BearerWord) + 1) = BearerWord \o <<Space>>
  /\ \A i \in 1..Len(BearerToken(hdr)) : BearerToken(hdr)[i].k # "sp"

(* Validate succeeds at clock reading t on the bearer token of hdr *)
Authenticated(hdr, t) ==
  /\ BearerForm(hdr)
  /\ ValidateResult(BearerToken(hdr), t).err = ""

StoreOps ==
  {"Create", "Get", "Update", "Delete",
   "Register", "Deregister", "List", "Discover", "Heartbeat"}

(* C23: a request to a protected route whose header is missing, is not  *)
(* of the form "Bearer <token>", or carries a token Validate refuses, is  *)
(* answered 401 and changes nothing in any engine; and every step that    *)
(* answers a session or registry operation or changes the state of the    *)
(* session store or the registry is the handler of a request on whose     *)
(* bearer token Validate has succeeded, or the second half of such a      *)
(* handler.                                                               *)
C23_AuthenticatedOnly ==
  [][ /\ \A route \in Routes, hdr \in Headers :
           (Serve(route, hdr) /\ ~Authenticated(hdr, now))
           => /\ ret'.op = "http"
              /\ ret'.status = 401
              /\ ret'.msg = IF hdr = <<>> THEN "missing authorization header"
                            ELSE IF ~BearerForm(hdr) THEN "invalid authorization header format"
                            ELSE "invalid token"
              /\ UNCHANGED <<now, cancelled, registryVars, sessionVars, tokenVars>>
      /\ ( \/ (ret = NoRet /\ ret'.op \in StoreOps)
           \/ sessionVars' # sessionVars
           \/ registryVars' # registryVars )
         => \/ upd.pc = "write"
            \/ hb.pc = "touch"
            \/ \E route \in Routes, hdr \in Headers :
                  Serve(route, hdr) /\ Authenticated(hdr, now)
    ]_vars

(* A request with a token that has expired, or that Validate refuses    *)
(* for another reason, has just been answered 401, after a session was    *)
(* created by an authenticated request                                    *)
C23_Witness ==
  /\ ret.op = "http"
  /\ ret.status = 401
  /\ ret.msg = "invalid token"
  /\ ~Authenticated(BearerWord \o <<Space>> \o ServiceToken(Secret, 0), now)
  /\ StoredSessions # {}

----------------------------------------------------------------------------
(* C31: whenever a probe of a stored record comes back without a 200,   *)
(* be it another status, a transport failure or a request that could not  *)
(* be built for the record's URL, the record is unhealthy and stored      *)
(* under its id afterwards, and what the probe leaves behind is a log     *)
(* line, not an answer to a caller.                                       *)
C31_EveryFailureMarks ==
  [][ \A i \in 1..Len(probes), outcome \in {"500", "error", "norequest"} :
        ( /\ ProbeDone(i, outcome)
          /\ objs[probes[i].obj].id \in StoredIds
          /\ services[objs[probes[i].obj].id] = probes[i].obj )
        => /\ services'[objs[probes[i].obj].id] = probes[i].obj
           /\ objs'[probes[i].obj].status = StatusUnhealthy
           /\ ret'.op \in {"warn", "error"}
    ]_vars

----------------------------------------------------------------------------
(* The lines the monitor logs for a status transition *)
TransitionLines ==
  {"service marked unhealthy (heartbeat timeout)",
   "service health check failed", "service recovered"}

(* C32: when the storage write of a status change fails inside the      *)
(* sweep, in the heartbeat test or in a probe, because the id is no       *)
(* longer stored, an error is logged and no transition line is.           *)
C32_FailedWriteLogged ==
  [][ /\ ( /\ SweepMark
           /\ ~RepoUpdateFound(services, objs[sweep.cur].id) )
         => /\ ret'.op = "error"
            /\ ret'.msg \notin TransitionLines
      /\ \A i \in 1..Len(probes), outcome \in {"200", "500", "error"} :
           ( /\ ProbeDone(i, outcome)
             /\ checkWrites(objs[probes[i].obj], outcome)
             /\ ~RepoUpdateFound(services, objs[probes[i].obj].id) )
           => /\ ret'.op = "error"
              /\ ret'.msg \notin TransitionLines
    ]_vars

----------------------------------------------------------------------------
(* C33: once the shutdown signal is up, a probe that was in flight and  *)
(* is cut off by it changes no stored record: every id keeps its entry    *)
(* and its status.                                                        *)
C33_ShutdownKeepsStatus ==
  [][ \A i \in 1..Len(probes) :
        (cancelled /\ ProbeDone(i, "canceled"))
        => \A id \in StoredIds :
             /\ services'[id] = services[id]
             /\ objs'[services[id]].status = objs[services[id]].status
    ]_vars

----------------------------------------------------------------------------
(* The fields of a session record that are set when it is created *)
Fixed(r) == <<r.id, r.userID, r.serviceID, r.createdAt, r.expiresAt>>

(* C34: a session record keeps its id, user id, service id, created-at  *)
(* and expires-at for as long as it exists, whatever is called; Get and   *)
(* the read of Update change nothing at all, the write of Update changes  *)
(* only the payload and updated-at of the record it read; and updated-at  *)
(* is never earlier than created-at.                                      *)
C34_FixedAtCreation ==
  /\ [][ /\ \A o \in 1..Len(sessObjs) :
              sessObjs'[o] # DeadSession => Fixed(sessObjs'[o]) = Fixed(sessObjs[o])
         /\ (\E id \in SessionIds : Get(id) \/ UpdateGet(id, "d1"))
              => (sessObjs' = sessObjs /\ sessions' = sessions)
         /\ UpdateWrite
              => \A o \in 1..Len(sessObjs) :
                   (sessObjs'[o] # DeadSession /\ o # upd.obj) => sessObjs'[o] = sessObjs[o]
     ]_vars
  /\ [](\A o \in 1..Len(sessObjs) : sessObjs[o].updatedAt >= sessObjs[o].createdAt)

(* An Update later than the Create has just written a record whose      *)
(* expiry is the one Create gave it                                       *)
C34_Witness ==
  /\ ret.op = "Update"
  /\ ret.err = ""
  /\ ret.id \in StoredSessions
  /\ Sess(ret.id).updatedAt > Sess(ret.id).createdAt
  /\ Sess(ret.id).expiresAt = Sess(ret.id).createdAt + 1
  /\ Sess(ret.id).data = "d1"

----------------------------------------------------------------------------
(* C35: with the cleanup task running over storage that does not fail,  *)
(* a stored session whose expires-at has passed is in the end no longer   *)
(* stored; a sweep takes every such session out at once; and Get answers  *)
(* "session expired" for it while it is stored and "session not found"    *)
(* once it is not.                                                        *)
C35_ExpiredSwept ==
  /\ \A id \in SessionIds :
       (id \in StoredSessions /\ IsExpired(Sess(id), now)) ~> (id \notin StoredSessions)
  /\ [][ /\ CleanupSweep
            => \A id \in SessionIds :
                 (id \in StoredSessions /\ IsExpired(Sess(id), now)) => sessions'[id] = NoObj
         /\ \A id \in SessionIds :
              Get(id) => ret'.err = IF id \notin StoredSessions THEN "get session: session not found"
                                    ELSE IF IsExpired(Sess(id), now) THEN "session expired"
                                    ELSE "" ]_vars

(* A sweep has just taken out the only stored session, which had expired, *)
(* while a later one had not been created yet                              *)
C35_Witness ==
  /\ ret.op = "DeleteExpired"
  /\ ret.val = 1
  /\ ret.logged
  /\ StoredSessions = {}
  /\ cleanup = "running"
  /\ now > 0

----------------------------------------------------------------------------
(* C36: a stored record without health-check URL is unhealthy only if   *)
(* its last heartbeat is at least 2 x interval old: a sweep that judged   *)
(* the record timed out before a heartbeat does not write unhealthy over   *)
(* that heartbeat.                                                        *)
C36_FreshHeartbeatStaysHealthy ==
  \A id \in StoredIds :
    (Rec(id).url = "" /\ Rec(id).status = StatusUnhealthy)
      => now - Rec(id).lastHeartbeat >= 2 * HealthCheckInterval

----------------------------------------------------------------------------
(* A record with its status left out *)
Registration(r) == [r EXCEPT !.status = ""]

(* C37: a write-back of the health monitor, whether the heartbeat-timeout *)
(* marking or a probe's result, leaves every field but the status of the    *)
(* record stored under the identifier as it was: a registration that        *)
(* replaced the record since the sweep listed it is not put back.           *)
C37_WriteBackKeepsRegistration ==
  [][ /\ (SweepMark /\ objs[sweep.cur].id \in StoredIds)
           => Registration(objs'[services'[objs[sweep.cur].id]])
                = Registration(Rec(objs[sweep.cur].id))
      /\ \A i \in 1..Len(probes), outcome \in {"200", "500", "error"} :
           (ProbeDone(i, outcome) /\ objs[probes[i].obj].id \in StoredIds)
             => Registration(objs'[services'[objs[probes[i].obj].id]])
                  = Registration(Rec(objs[probes[i].obj].id)) ]_vars

----------------------------------------------------------------------------
(* C38: of two probes of the same record in flight together, the one    *)
(* dispatched later decides the stored status: when the record is healthy  *)
(* and the later probe completes with a 200, the earlier one, completing   *)
(* after it with a failure, does not leave the record unhealthy.           *)
C38_LatestProbeDecides ==
  \A i, j \in 1..Len(probes) :
    ( /\ i < j
      /\ probes[i].obj = probes[j].obj
      /\ objs[probes[i].obj].id \in StoredIds
      /\ services[objs[probes[i].obj].id] = probes[i].obj
      /\ objs[probes[i].obj].status = StatusHealthy )
    => ~ENABLED ( /\ ProbeDone(j, "200")
                  /\ (ENABLED ( /\ ProbeDone(i, "500")
                                /\ probes' = <<>>
                                /\ services'[objs[probes[i].obj].id] = probes[i].obj
                                /\ objs'[probes[i].obj].status = StatusUnhealthy ))' )

----------------------------------------------------------------------------
(* C39: the session a successful Create has just stored expires strictly *)
(* later than it was created, whatever the ttl argument, and Get on its    *)
(* id returns it.                                                          *)
C39_CreatedSessionLive ==
  (ret.op = "Create" /\ ret.err = "")
    => /\ sessObjs[ret.val[1]].expiresAt > sessObjs[ret.val[1]].createdAt
       /\ GetResult(sessObjs, sessions, sessObjs[ret.val[1]].id, now).err = ""

----------------------------------------------------------------------------
(* The headers of a client that holds no token Validate accepts *)
Tokenless == {hdr \in Headers : ~Authenticated(hdr, now)}

(* C40: while no token has been issued, a request to the token-issuing   *)
(* route that presents no valid bearer token can be answered with a token. *)
(* (Requests without a valid token change nothing, so what such a client   *)
(* can reach in any number of requests it can reach in one.)               *)
C40_TokenWithoutToken ==
  (ret = NoRet /\ issued = <<>>)
    => ENABLED (\E hdr \in Tokenless :
                  /\ Serve("POST /auth/token", hdr)
                  /\ ret'.op = "Generate"
                  /\ ret'.err = "")

(* The first token is issued to a request that already carries a valid one *)
FirstTokenToBearer ==
  [][ (issued = <<>> /\ issued' # <<>>)
      => \E hdr \in Headers : Serve("POST /auth/token", hdr) /\ Authenticated(hdr, now) ]_vars

====
